---- MODULE Spec2Model ----
(***************************************************************************)
(* Workflow orchestration engine of the Tableau MCP server                 *)
(* (src/tableau_mcp_server/workflow_orchestrator.py): intent parser,       *)
(* validator, executor with rollback stack, and the orchestrator's         *)
(* confirmation handshake.                                                 *)
(*                                                                         *)
(* Python str values are TLA+ strings; dict values are functions from      *)
(* strings (records); every Python value that flows through step           *)
(* arguments and results is tagged with its type (see VStr .. VNone).      *)
(* The JSON documents the entry points return are the records they         *)
(* serialise (lastEvent.response).                                         *)
(***************************************************************************)
EXTENDS Integers, Sequences, FiniteSets, TLC

(***************************************************************************)
(* Bounds of the model.                                                    *)
(***************************************************************************)
MaxPlans == 2        \* plans created (uuid4 ids handed out) in one behaviour
MaxTasks == 2        \* calls suspended at a tool invocation at the same time
GraphSteps == 3      \* steps of a plan in the dependency-graph specification
GraphDeps == 2       \* dependencies declared by one step in that specification

(***************************************************************************)
(* Python values.                                                          *)
(***************************************************************************)
VStr(s) == [str |-> s]
VList(l) == [list |-> l]
VDict(d) == [dict |-> d]
VInt(n) == [int |-> n]
VBool(b) == [bool |-> b]
VNone == [none |-> TRUE]

TypeOf(val) == CHOOSE type \in DOMAIN val : TRUE
ValueOf(val) == val[TypeOf(val)]

\* the str-or-None that the slot-extraction regexes return for a request; the
\* engine only passes it on to tools and never inspects it
VSlot(kind) == [slot |-> kind]

\* bool(value): Python truthiness
Truthy(val) ==
    CASE TypeOf(val) = "str" -> ValueOf(val) # ""
      [] TypeOf(val) = "list" -> Len(ValueOf(val)) > 0
      [] TypeOf(val) = "dict" -> DOMAIN ValueOf(val) # {}
      [] TypeOf(val) = "int" -> ValueOf(val) # 0
      [] TypeOf(val) = "bool" -> ValueOf(val)
      [] TypeOf(val) = "none" -> FALSE
      [] OTHER -> TRUE

(***************************************************************************)
(* str operations.                                                         *)
(***************************************************************************)
\* pattern in s
Contains(s, pattern) ==
    \E i \in 1..(Len(s) - Len(pattern) + 1) :
        SubSeq(s, i, i + Len(pattern) - 1) = pattern

StartsWith(s, prefix) ==
    Len(s) >= Len(prefix) /\ SubSeq(s, 1, Len(prefix)) = prefix

EndsWith(s, suffix) ==
    Len(s) >= Len(suffix) /\ SubSeq(s, Len(s) - Len(suffix) + 1, Len(s)) = suffix

UpperCase == "ABCDEFGHIJKLMNOPQRSTUVWXYZ"
LowerCase == "abcdefghijklmnopqrstuvwxyz"

LowerChar(c) ==
    IF \E i \in 1..Len(UpperCase) : SubSeq(UpperCase, i, i) = c
    THEN LET i == CHOOSE j \in 1..Len(UpperCase) : SubSeq(UpperCase, j, j) = c
         IN  SubSeq(LowerCase, i, i)
    ELSE c

\* s.lower()
RECURSIVE Lower(_)
Lower(s) ==
    IF s = "" THEN ""
    ELSE LowerChar(SubSeq(s, 1, 1)) \o Lower(SubSeq(s, 2, Len(s)))

\* s.strip()
RECURSIVE LStrip(_)
LStrip(s) ==
    IF s # "" /\ SubSeq(s, 1, 1) = " " THEN LStrip(SubSeq(s, 2, Len(s))) ELSE s

RECURSIVE RStrip(_)
RStrip(s) ==
    IF s # "" /\ SubSeq(s, Len(s), Len(s)) = " "
    THEN RStrip(SubSeq(s, 1, Len(s) - 1)) ELSE s

Strip(s) == RStrip(LStrip(s))

(***************************************************************************)
(* WorkflowStatus, OperationType, WorkflowStep, WorkflowPlan.              *)
(***************************************************************************)
WorkflowStatus == {"pending", "in_progress", "waiting_confirmation",
                   "completed", "failed", "cancelled", "rolled_back"}

OperationType == {"read", "create", "update", "delete", "move", "publish",
                  "refresh"}

\* a plan object has no status attribute until execute_workflow or
\* confirm_workflow assigns one
NoStatus == "unset"

\* rollback_info = None, and the rollback descriptors of the templates
NoRollback == VNone

RollbackInfo(action) == VDict([action |-> VStr(action)])

\* WorkflowStep(...): status PENDING, result None, error None
WorkflowStep(id, tool_name, arguments, operation_type, dependencies, rollback_info) ==
    [id |-> id, tool_name |-> tool_name, arguments |-> arguments,
     operation_type |-> operation_type, dependencies |-> dependencies,
     rollback_info |-> rollback_info,
     status |-> "pending", result |-> VNone, error |-> ""]

WorkflowPlan(title, steps, estimated_duration, risk_level, requires_confirmation, rollback_supported) ==
    [title |-> title, steps |-> steps,
     estimated_duration |-> estimated_duration, risk_level |-> risk_level,
     requires_confirmation |-> requires_confirmation,
     rollback_supported |-> rollback_supported,
     status |-> NoStatus]

\* only deleting counts as destructive
has_delete_operations(workflow) ==
    \E i \in 1..Len(workflow.steps) : workflow.steps[i].operation_type = "delete"

has_destructive_operations(workflow) ==
    \E i \in 1..Len(workflow.steps) :
        workflow.steps[i].operation_type \in {"delete", "move"}

total_steps(workflow) == Len(workflow.steps)

completed_steps(workflow) ==
    Cardinality({i \in 1..Len(workflow.steps) :
                    workflow.steps[i].status = "completed"})

(***************************************************************************)
(* WorkflowIntentParser.                                                   *)
(***************************************************************************)
cleanup_patterns == {"clean up", "cleanup", "archive old", "remove unused",
                     "organize content", "tidy up"}

migration_patterns == {"migrate", "transfer", "move user", "reassign",
                       "user leaving", "offboard"}

audit_patterns == {"audit", "review permissions", "check access",
                   "security review", "compliance check"}

read_keywords == {"list", "show", "find", "search"}

NoTemplate == "none"

\* the audit phrases are tried before the cleanup and migration phrases
match_audit_first(request) ==
    LET request_lower == Lower(request) IN
    IF \E pattern \in audit_patterns : Contains(request_lower, pattern)
    THEN "permission_audit"
    ELSE IF \E pattern \in cleanup_patterns : Contains(request_lower, pattern)
    THEN "content_cleanup"
    ELSE IF \E pattern \in migration_patterns : Contains(request_lower, pattern)
    THEN "user_migration"
    ELSE NoTemplate

match_workflow_template(request) ==
    LET request_lower == Lower(request) IN
    IF \E pattern \in cleanup_patterns : Contains(request_lower, pattern)
    THEN "content_cleanup"
    ELSE IF \E pattern \in migration_patterns : Contains(request_lower, pattern)
    THEN "user_migration"
    ELSE IF \E pattern \in audit_patterns : Contains(request_lower, pattern)
    THEN "permission_audit"
    ELSE NoTemplate

create_audit_workflow(request) ==
    WorkflowPlan("Permission Audit",
        << WorkflowStep("identify_content", "search_workbooks",
               [project_name |-> VStr("all")], "read", <<>>, NoRollback),
           WorkflowStep("analyze_permissions", "list_content_permissions",
               [content_type |-> VStr("workbook")], "read",
               <<"identify_content">>, NoRollback) >>,
        20, "low", FALSE, TRUE)

create_cleanup_workflow(request) ==
    WorkflowPlan("Content Cleanup",
        << WorkflowStep("analyze_content", "search_workbooks",
               [project_name |-> VSlot("project")], "read", <<>>,
               NoRollback),
           WorkflowStep("identify_candidates", "analyze_usage_patterns",
               [days_threshold |-> VInt(90)], "read",
               <<"analyze_content">>, NoRollback),
           WorkflowStep("confirm_archival", "request_user_confirmation",
               [action |-> VStr("archive"),
                items |-> VStr("{{identified_candidates}}")], "read",
               <<"identify_candidates">>, NoRollback),
           WorkflowStep("archive_content", "bulk_move_content",
               [target_project |-> VStr("Archive"),
                items |-> VStr("{{confirmed_items}}")], "move",
               <<"confirm_archival">>, RollbackInfo("restore_from_archive")) >>,
        15, "medium", TRUE, TRUE)

create_migration_workflow(request) ==
    WorkflowPlan("User Migration",
        << WorkflowStep("inventory_content", "get_user_content",
               [username |-> VSlot("user")], "read", <<>>,
               NoRollback),
           WorkflowStep("analyze_importance", "analyze_content_importance",
               [user |-> VSlot("user")], "read",
               <<"inventory_content">>, NoRollback),
           WorkflowStep("plan_migration", "create_migration_plan",
               [from_user |-> VSlot("user"),
                to_user |-> VSlot("target_user")], "read",
               <<"analyze_importance">>, NoRollback),
           WorkflowStep("transfer_ownership", "bulk_transfer_ownership",
               [from_user |-> VSlot("user"),
                migration_plan |-> VStr("{{migration_plan}}")], "update",
               <<"plan_migration">>, RollbackInfo("restore_ownership")),
           WorkflowStep("update_permissions", "update_user_permissions",
               [user |-> VSlot("user"),
                action |-> VStr("revoke_all")], "update",
               <<"transfer_ownership">>, RollbackInfo("restore_permissions")) >>,
        25, "high", TRUE, TRUE)

instantiate_template(template, request) ==
    CASE template = "content_cleanup" -> create_cleanup_workflow(request)
      [] template = "user_migration" -> create_migration_workflow(request)
      [] template = "permission_audit" -> create_audit_workflow(request)

\* the generic plan's second step waits for a step id the plan does not have
pattern_parse_dangling(request) ==
    LET request_lower == Lower(request) IN
    IF \E word \in read_keywords : Contains(request_lower, word)
    THEN WorkflowPlan("Content Search",
             << WorkflowStep("search_content", "search_workbooks",
                    [name |-> VStr("")], "read", <<>>, NoRollback) >>,
             2, "low", FALSE, TRUE)
    ELSE WorkflowPlan("Generic Workflow",
             << WorkflowStep("analyze_request", "analyze_usage_patterns",
                    [request |-> VStr(request)], "read", <<>>, NoRollback),
                WorkflowStep("execute_action", "request_user_confirmation",
                    [action |-> VStr("generic"), items |-> VList(<<>>)],
                    "update", <<"analyze">>, NoRollback) >>,
             10, "medium", TRUE, TRUE)

pattern_parse_workflow(request) ==
    LET request_lower == Lower(request) IN
    IF \E word \in read_keywords : Contains(request_lower, word)
    THEN WorkflowPlan("Content Search",
             << WorkflowStep("search_content", "search_workbooks",
                    [name |-> VStr("")], "read", <<>>, NoRollback) >>,
             2, "low", FALSE, TRUE)
    ELSE WorkflowPlan("Generic Workflow",
             << WorkflowStep("analyze_request", "analyze_usage_patterns",
                    [request |-> VStr(request)], "read", <<>>, NoRollback),
                WorkflowStep("execute_action", "request_user_confirmation",
                    [action |-> VStr("generic"), items |-> VList(<<>>)],
                    "update", <<"analyze_request">>, NoRollback) >>,
             10, "medium", TRUE, TRUE)

\* the orchestrator's llm is None or falls back to the pattern parser
parse_workflow_intent(request) ==
    LET template_match == match_workflow_template(request) IN
    IF template_match # NoTemplate
    THEN instantiate_template(template_match, request)
    ELSE pattern_parse_workflow(request)

(***************************************************************************)
(* WorkflowValidator.                                                      *)
(***************************************************************************)
\* every step adds one point, whatever its operation type
one_point_per_step(steps) == Len(steps)

RECURSIVE risk_score_of(_)
risk_score_of(steps) ==
    IF steps = <<>> THEN 0
    ELSE (CASE Head(steps).operation_type = "delete" -> 3
            [] Head(steps).operation_type = "move" -> 2
            [] Head(steps).operation_type = "update" -> 1
            [] OTHER -> 0) + risk_score_of(Tail(steps))

\* the number of steps adds nothing to the score
assess_risk_without_size(workflow) ==
    LET risk_score == risk_score_of(workflow.steps)
    IN  [score |-> risk_score,
         level |-> IF risk_score >= 8 THEN "high"
                   ELSE IF risk_score >= 4 THEN "medium" ELSE "low",
         requires_confirmation |-> risk_score >= 3]

assess_risk(workflow) ==
    LET risk_score == risk_score_of(workflow.steps)
                      + (IF total_steps(workflow) > 10 THEN 2 ELSE 0)
    IN  [score |-> risk_score,
         level |-> IF risk_score >= 8 THEN "high"
                   ELSE IF risk_score >= 4 THEN "medium" ELSE "low",
         requires_confirmation |-> risk_score >= 3]

tool_exists(tool_name) == TRUE

validate_step(step) ==
    (IF ~tool_exists(step.tool_name) THEN <<"Unknown tool">> ELSE <<>>)
    \o (IF step.tool_name \in {"move_workbook", "move_datasource"}
           /\ "target_project_id" \notin DOMAIN step.arguments
           /\ "target_project_name" \notin DOMAIN step.arguments
        THEN <<"Move operation missing target project">> ELSE <<>>)

\* only the first error of the plan is kept
RECURSIVE first_step_error(_)
first_step_error(steps) ==
    IF steps = <<>> THEN <<>>
    ELSE IF validate_step(Head(steps)) # <<>> THEN validate_step(Head(steps))
    ELSE first_step_error(Tail(steps))

RECURSIVE step_errors(_)
step_errors(steps) ==
    IF steps = <<>> THEN <<>>
    ELSE validate_step(Head(steps)) \o step_errors(Tail(steps))

validate_workflow(workflow) ==
    LET errors == step_errors(workflow.steps) IN
    [valid |-> errors = <<>>,
     warnings |-> IF has_destructive_operations(workflow)
                  THEN <<"Workflow contains potentially destructive operations">>
                  ELSE <<>>,
     errors |-> errors,
     risk_assessment |-> assess_risk(workflow)]

(***************************************************************************)
(* WorkflowExecutor: pure parts.                                           *)
(***************************************************************************)
\* first position whose step has not been appended yet, its dependencies
\* ignored; 0 if none
NextUnexecuted(steps, executed) ==
    LET remaining == {i \in 1..Len(steps) : steps[i].id \notin executed}
    IN  IF remaining = {} THEN 0
        ELSE CHOOSE i \in remaining : \A j \in remaining : i <= j

\* first position at which a step may be appended to the order, 0 if none
NextExecutable(steps, executed) ==
    LET eligible == {i \in 1..Len(steps) :
                        /\ steps[i].id \notin executed
                        /\ \A d \in 1..Len(steps[i].dependencies) :
                               steps[i].dependencies[d] \in executed}
    IN  IF eligible = {} THEN 0
        ELSE CHOOSE i \in eligible : \A j \in eligible : i <= j

RECURSIVE ResolveLoop(_, _, _)
ResolveLoop(steps, executed, execution_order) ==
    IF Len(execution_order) >= Len(steps)
    THEN [ok |-> TRUE, order |-> execution_order]
    ELSE LET i == NextExecutable(steps, executed) IN
         IF i = 0
         THEN [ok |-> FALSE, order |-> execution_order]
         ELSE ResolveLoop(steps, executed \cup {steps[i].id},
                          Append(execution_order, steps[i].id))

\* the steps in the order the plan lists them, dependencies ignored
declared_order(steps) == [ok |-> TRUE, order |-> [i \in 1..Len(steps) |-> steps[i].id]]

\* ok = FALSE: ValueError("Cannot resolve execution order ...")
resolve_execution_order(steps) == ResolveLoop(steps, {}, <<>>)

\* next(s for s in workflow.steps if s.id == step_id), as a position
StepIndex(steps, step_id) ==
    CHOOSE i \in 1..Len(steps) :
        /\ steps[i].id = step_id
        /\ \A j \in 1..(i - 1) : steps[j].id # step_id

\* var_name.split(".")
RECURSIVE Split(_, _)
Split(s, acc) ==
    IF s = "" THEN <<acc>>
    ELSE IF SubSeq(s, 1, 1) = "." THEN <<acc>> \o Split(SubSeq(s, 2, Len(s)), "")
    ELSE Split(SubSeq(s, 2, Len(s)), acc \o SubSeq(s, 1, 1))

\* current = current[part] for each part; KeyError/TypeError -> found FALSE
RECURSIVE Descend(_, _)
Descend(current, parts) ==
    IF parts = <<>> THEN [found |-> TRUE, value |-> current]
    ELSE IF TypeOf(current) = "dict" /\ Head(parts) \in DOMAIN ValueOf(current)
         THEN Descend(ValueOf(current)[Head(parts)], Tail(parts))
         ELSE [found |-> FALSE, value |-> VNone]

\* the lookup of one variable in one step, whatever the status of the step
LookupInAnyStep(step, var_name) ==
    IF Truthy(step.result) /\ TypeOf(step.result) = "dict"
    THEN IF var_name \in DOMAIN ValueOf(step.result)
         THEN [found |-> TRUE, value |-> ValueOf(step.result)[var_name]]
         ELSE IF Contains(var_name, ".")
              THEN Descend(step.result, Split(var_name, ""))
              ELSE [found |-> FALSE, value |-> VNone]
    ELSE [found |-> FALSE, value |-> VNone]

\* the lookup of one variable in one step: found, and the value
LookupInStep(step, var_name) ==
    IF step.status = "completed" /\ Truthy(step.result) /\ TypeOf(step.result) = "dict"
    THEN IF var_name \in DOMAIN ValueOf(step.result)
         THEN [found |-> TRUE, value |-> ValueOf(step.result)[var_name]]
         ELSE IF Contains(var_name, ".")
              THEN Descend(step.result, Split(var_name, ""))
              ELSE [found |-> FALSE, value |-> VNone]
    ELSE [found |-> FALSE, value |-> VNone]

IsTemplate(value) ==
    TypeOf(value) = "str" /\ StartsWith(ValueOf(value), "{{") /\ EndsWith(ValueOf(value), "}}")

\* value[2:-2].strip()
VarName(s) == Strip(SubSeq(s, 3, Len(s) - 2))

ResolveValue(value, steps) ==
    IF IsTemplate(value)
    THEN LET var_name == VarName(ValueOf(value))
             hits == {i \in 1..Len(steps) : LookupInStep(steps[i], var_name).found}
         IN  IF hits = {} THEN value
             ELSE LookupInStep(steps[CHOOSE i \in hits : \A j \in hits : i <= j],
                               var_name).value
    ELSE value

resolve_template_variables(arguments, workflow) ==
    [key \in DOMAIN arguments |-> ResolveValue(arguments[key], workflow.steps)]

\* arguments.get(key, default)
Get(arguments, key, default) ==
    IF key \in DOMAIN arguments THEN arguments[key] ELSE default

\* a tool outcome: the value returned, or the exception raised
Returned(result) == [success |-> TRUE, result |-> result, error |-> ""]
Raised(error) == [success |-> FALSE, result |-> VNone, error |-> error]

(***************************************************************************)
(* Workflow pseudo-tools (WorkflowExecutor._execute_workflow_tool) and the *)
(* tool client.                                                            *)
(***************************************************************************)
Candidate(id, name, project_name, default_project) ==
    VDict([id |-> VStr(id), name |-> VStr(name), type |-> VStr("workbook"),
           project |-> IF Truthy(project_name) THEN project_name
                       ELSE VStr(default_project)])

analyze_usage_patterns(arguments) ==
    LET project_name == Get(arguments, "project_name", VNone) IN
    Returned(VDict([
        analysis_completed |-> VBool(TRUE),
        days_threshold |-> Get(arguments, "days_threshold", VInt(90)),
        candidates |-> VList(<<
            Candidate("wb_123", "Old Sales Report", project_name, "Sales"),
            Candidate("wb_456", "Quarterly Analysis Backup", project_name, "Finance")>>),
        total_candidates |-> VInt(2),
        estimated_storage_savings |-> VStr("1.2GB")]))

request_user_confirmation(arguments) ==
    LET action == Get(arguments, "action", VStr("unknown"))
        items == Get(arguments, "items", VList(<<>>))
        auto_confirm == action \in {VStr("archive"), VStr("move")}
    IN  Returned(VDict([
            confirmation_requested |-> VBool(TRUE),
            action |-> action,
            items_count |-> VInt(IF TypeOf(items) = "list" THEN Len(ValueOf(items)) ELSE 0),
            auto_confirmed |-> VBool(auto_confirm),
            confirmed_items |-> IF auto_confirm THEN items ELSE VList(<<>>),
            message |-> VStr("Auto-confirmed action for demo purposes")]))

\* for item in items: the items iterated, or not iterable
Iterate(items) ==
    CASE TypeOf(items) = "list" -> [iterable |-> TRUE, items |-> ValueOf(items)]
      [] TypeOf(items) = "str" ->
            [iterable |-> TRUE,
             items |-> [i \in 1..Len(ValueOf(items)) |-> VStr(SubSeq(ValueOf(items), i, i))]]
      [] TypeOf(items) = "dict" ->
            [iterable |-> TRUE,
             items |-> LET keys == CHOOSE f \in [1..Cardinality(DOMAIN ValueOf(items)) -> DOMAIN ValueOf(items)] :
                                       \A k \in DOMAIN ValueOf(items) : \E i \in DOMAIN f : f[i] = k
                       IN  [i \in DOMAIN keys |-> VStr(keys[i])]]
      [] OTHER -> [iterable |-> FALSE, items |-> <<>>]

MovedItem(item, target_project) ==
    VDict([id |-> Get(ValueOf(item), "id", VNone), name |-> Get(ValueOf(item), "name", VNone),
           type |-> IF Get(ValueOf(item), "type", VNone) = VStr("workbook")
                    THEN VStr("workbook")
                    ELSE Get(ValueOf(item), "type", VStr("unknown")),
           moved_to |-> target_project, status |-> VStr("success")])

\* item.get(...) on an item that is not a dict raises inside the try block and
\* again inside its except handler, so the exception leaves the tool
bulk_move_content(arguments) ==
    LET target_project == Get(arguments, "target_project", VStr("Archive"))
        it == Iterate(Get(arguments, "items", VList(<<>>)))
    IN  IF ~it.iterable
        THEN Raised("object is not iterable")
        ELSE IF \E i \in 1..Len(it.items) : TypeOf(it.items[i]) # "dict"
        THEN Raised("object has no attribute 'get'")
        ELSE Returned(VDict([
                operation |-> VStr("bulk_move"),
                target_project |-> target_project,
                moved_items |-> VList([i \in 1..Len(it.items) |->
                                          MovedItem(it.items[i], target_project)]),
                failed_items |-> VList(<<>>),
                success_count |-> VInt(Len(it.items)),
                failure_count |-> VInt(0),
                total_processed |-> VInt(Len(it.items))]))

get_user_content(arguments) ==
    Returned(VDict([
        user |-> Get(arguments, "username", VNone),
        content_inventory |-> VDict([
            workbooks |-> VList(<<VDict([id |-> VStr("wb_789")]),
                                  VDict([id |-> VStr("wb_790")])>>),
            datasources |-> VList(<<VDict([id |-> VStr("ds_123")])>>),
            flows |-> VList(<<>>),
            subscriptions |-> VList(<<VDict([id |-> VStr("sub_456")])>>)]),
        total_items |-> VInt(4),
        projects_involved |-> VList(<<VStr("Personal"), VStr("Team Projects")>>),
        critical_content |-> VInt(1)]))

analyze_content_importance(arguments) ==
    Returned(VDict([
        user |-> Get(arguments, "user", VNone),
        importance_analysis |-> VDict([
            critical |-> VList(<<VDict([id |-> VStr("wb_789")])>>),
            important |-> VList(<<VDict([id |-> VStr("wb_790")])>>),
            low_priority |-> VList(<<VDict([id |-> VStr("ds_123")])>>),
            obsolete |-> VList(<<>>)]),
        recommendations |-> VDict([
            transfer_to_team |-> VList(<<VStr("wb_789")>>),
            archive |-> VList(<<VStr("ds_123")>>),
            requires_documentation |-> VList(<<VStr("wb_790")>>)])]))

TransferAction(content_id, content_name, to_user, flag) ==
    VDict(("content_id" :> VStr(content_id)) @@ ("content_name" :> VStr(content_name))
          @@ ("action" :> VStr("transfer_ownership")) @@ ("new_owner" :> to_user)
          @@ (flag :> VBool(TRUE)))

create_migration_plan(arguments) ==
    LET from_user == Get(arguments, "from_user", VNone)
        to_user == Get(arguments, "to_user", VStr("team_lead"))
    IN  Returned(VDict([
            migration_plan |-> VDict([
                from_user |-> from_user,
                to_user |-> to_user,
                transfer_actions |-> VList(<<
                    TransferAction("wb_789", "Dashboard", to_user, "notify_stakeholders"),
                    TransferAction("wb_790", "Analysis", to_user, "add_documentation")>>),
                archive_actions |-> VList(<<
                    VDict([content_id |-> VStr("ds_123"), action |-> VStr("archive")])>>),
                permission_updates |-> VList(<<
                    VDict([action |-> VStr("revoke_all_access"), user |-> from_user])>>)]),
            estimated_duration |-> VStr("15 minutes"),
            stakeholder_notifications |-> VInt(3),
            reversible |-> VBool(TRUE)]))

\* action["content_id"] raises again inside the except handler when the
\* action has no content_id or is not a dict
bulk_transfer_ownership(arguments) ==
    LET from_user == Get(arguments, "from_user", VNone)
        migration_plan == Get(arguments, "migration_plan", VDict(<<>>))
    IN  IF TypeOf(migration_plan) # "dict"
        THEN Raised("object has no attribute 'get'")
        ELSE LET it == Iterate(Get(ValueOf(migration_plan), "transfer_actions", VList(<<>>)))
                 complete(a) == {"content_name", "new_owner"} \subseteq DOMAIN ValueOf(a)
                 ok == {i \in 1..Len(it.items) : complete(it.items[i])}
             IN  IF ~it.iterable
                 THEN Raised("object is not iterable")
                 ELSE IF \E i \in 1..Len(it.items) :
                            \/ TypeOf(it.items[i]) # "dict"
                            \/ "content_id" \notin DOMAIN ValueOf(it.items[i])
                 THEN Raised("content_id")
                 ELSE Returned(VDict([
                        operation |-> VStr("bulk_transfer_ownership"),
                        from_user |-> from_user,
                        transferred |-> VList(SelectSeq(it.items, complete)),
                        failed |-> VList(SelectSeq(it.items, LAMBDA a : ~complete(a))),
                        success_count |-> VInt(Cardinality(ok)),
                        failure_count |-> VInt(Len(it.items) - Cardinality(ok)),
                        notifications_sent |-> VInt(Cardinality(
                            {i \in 1..Len(it.items) :
                                Truthy(Get(ValueOf(it.items[i]), "notify_stakeholders", VNone))}))]))

update_user_permissions(arguments) ==
    LET user == Get(arguments, "user", VNone)
        action == Get(arguments, "action", VStr("revoke_all"))
    IN  IF action = VStr("revoke_all")
        THEN Returned(VDict([
                operation |-> VStr("revoke_all_permissions"),
                user |-> user,
                revoked_permissions |-> VList(<<VStr("View"), VStr("Edit"), VStr("Owner")>>),
                total_revoked |-> VInt(3),
                user_deactivated |-> VBool(TRUE),
                cleanup_completed |-> VBool(TRUE)]))
        ELSE Returned(VDict([operation |-> action, user |-> user,
                             status |-> VStr("completed")]))

execute_workflow_tool(tool_name, arguments) ==
    CASE tool_name = "analyze_usage_patterns" -> analyze_usage_patterns(arguments)
      [] tool_name = "request_user_confirmation" -> request_user_confirmation(arguments)
      [] tool_name = "bulk_move_content" -> bulk_move_content(arguments)
      [] tool_name = "get_user_content" -> get_user_content(arguments)
      [] tool_name = "analyze_content_importance" -> analyze_content_importance(arguments)
      [] tool_name = "create_migration_plan" -> create_migration_plan(arguments)
      [] tool_name = "bulk_transfer_ownership" -> bulk_transfer_ownership(arguments)
      [] tool_name = "update_user_permissions" -> update_user_permissions(arguments)
      [] OTHER -> Raised("Unknown workflow tool")

\* hasattr(self.tableau_client, tool_name): the client methods a plan of this
\* model names, with their required and accepted keyword arguments
ClientSignature ==
    [search_workbooks |->
        [required |-> {}, accepted |-> {"name", "project_name", "tag", "owner_name"}],
     list_content_permissions |->
        [required |-> {"content_type", "content_id"},
         accepted |-> {"content_type", "content_id"}],
     move_workbook |->
        [required |-> {"workbook_id", "target_project_id"},
         accepted |-> {"workbook_id", "target_project_id"}],
     move_datasource |->
        [required |-> {"datasource_id", "target_project_id"},
         accepted |-> {"datasource_id", "target_project_id"}]]

TableauClientTools == DOMAIN ClientSignature

\* await tool_method(**resolved_args) raises TypeError at once when the keywords
\* do not fit the signature; otherwise the call is suspended in the client
FitsSignature(tool_name, arguments) ==
    /\ ClientSignature[tool_name].required \subseteq DOMAIN arguments
    /\ DOMAIN arguments \subseteq ClientSignature[tool_name].accepted

\* the tool invocations of _execute_step at which the call is suspended
Suspends(invocation) ==
    /\ invocation.tool_name \in TableauClientTools
    /\ FitsSignature(invocation.tool_name, invocation.arguments)

\* what the client answers to a suspended call: a JSON string, or it raises
ClientOutcomes ==
    {Returned(VStr("{\"total_count\": 0}")),
     Raised("Not connected to Tableau Cloud. Call connect() first.")}

\* the outcome of an invocation that is not suspended
ImmediateOutcome(invocation) ==
    IF invocation.tool_name \in TableauClientTools
    THEN Raised("missing or unexpected keyword argument")
    ELSE execute_workflow_tool(invocation.tool_name, invocation.arguments)

(***************************************************************************)
(* State of one WorkflowOrchestrator with its WorkflowExecutor.            *)
(***************************************************************************)
VARIABLES
    next_id,           \* number of plan ids (uuid4) handed out so far
    plans,             \* plan id -> WorkflowPlan object still referenced
    active_workflows,  \* WorkflowOrchestrator.active_workflows (keys)
    executor_active,   \* WorkflowExecutor.active_workflows (keys)
    rollback_stack,    \* WorkflowExecutor.rollback_stack
    tasks,             \* calls suspended at a tool invocation
    dispatched,        \* plan id -> tool invocations made for its steps
    lastEvent          \* the call that returned in the latest step, if one did

vars == <<next_id, plans, active_workflows, executor_active, rollback_stack,
          tasks, dispatched, lastEvent>>

NoTask == [op |-> "none"]

\* lastEvent describes the call that returned last, until another call starts
NoEvent == [op |-> "none"]

FreeSlots == {t \in 1..MaxTasks : tasks[t] = NoTask}

\* the plan ids with an execution in flight
InFlight == {tasks[t].workflow_id : t \in (1..MaxTasks) \ FreeSlots}

\* requests an operator submits
Requests ==
    {"Clean up the Finance project",
     "List all workbooks in Finance project",
     "Archive old workbooks from Finance project",
     "Delete all unused data sources and remove user access",
     "Migrate john.doe's content when he leaves the Marketing team",
     "Audit permissions for sensitive workbooks and create compliance report",
     "Set up new project with proper permissions for Marketing team"}

ParsedRequest == [request \in Requests |-> parse_workflow_intent(request)]

Validation == [request \in Requests |-> validate_workflow(ParsedRequest[request])]

Init ==
    /\ next_id = 0
    /\ plans = <<>>
    /\ active_workflows = {}
    /\ executor_active = {}
    /\ rollback_stack = <<>>
    /\ tasks = [t \in 1..MaxTasks |-> NoTask]
    /\ dispatched = <<>>
    /\ lastEvent = NoEvent

(***************************************************************************)
(* WorkflowExecutor: execute_workflow, cut at the tool invocations.        *)
(***************************************************************************)
Reverse(seq) == [i \in 1..Len(seq) |-> seq[Len(seq) + 1 - i]]

\* _execute_rollback raises (and is caught per item) when rollback_info has
\* no get method
execute_rollback(rollback_item) ==
    [workflow_id |-> rollback_item.workflow_id, step |-> rollback_item.step,
     ok |-> TypeOf(rollback_item.rollback_info) = "dict"]

\* the rollback actions invoked in the order the records were pushed
rollback_in_push_order(workflow_id, stack) ==
    LET own(rb) == rb.workflow_id = workflow_id
        other(rb) == rb.workflow_id # workflow_id
        workflow_rollbacks == SelectSeq(stack, own)
    IN  [replayed |-> [i \in 1..Len(workflow_rollbacks) |->
                          execute_rollback(workflow_rollbacks[i])],
         stack |-> SelectSeq(stack, other)]

\* every record of the stack is replayed, last first, and the stack is emptied
rollback_everything(workflow_id, stack) ==
    [replayed |-> [i \in 1..Len(stack) |-> execute_rollback(Reverse(stack)[i])],
     stack |-> <<>>]

\* _rollback_workflow: the rollback actions invoked, in order, and the stack left
rollback_workflow(workflow_id, stack) ==
    LET own(rb) == rb.workflow_id = workflow_id
        other(rb) == rb.workflow_id # workflow_id
        workflow_rollbacks == SelectSeq(stack, own)
    IN  [replayed |-> [i \in 1..Len(workflow_rollbacks) |->
                          execute_rollback(Reverse(workflow_rollbacks)[i])],
         stack |-> SelectSeq(stack, other)]

handle_workflow_failure(workflow, workflow_id, stack) ==
    IF workflow.rollback_supported /\ stack # <<>>
    THEN LET rb == rollback_workflow(workflow_id, stack) IN
         [workflow |-> [workflow EXCEPT !.status = "rolled_back"],
          stack |-> rb.stack, replayed |-> rb.replayed]
    ELSE [workflow |-> [workflow EXCEPT !.status = "failed"],
          stack |-> stack, replayed |-> <<>>]

\* the loop body up to the tool invocation of execution_order[pos]; completed
\* records the steps COMPLETED at that moment
Invocation(workflow, execution_order, pos) ==
    LET i == StepIndex(workflow.steps, execution_order[pos]) IN
    [step |-> i, tool_name |-> workflow.steps[i].tool_name,
     arguments |-> resolve_template_variables(workflow.steps[i].arguments, workflow),
     completed |-> {workflow.steps[j].id : j \in {k \in 1..Len(workflow.steps) :
                                                    workflow.steps[k].status = "completed"}}]

\* one execute_workflow call that has reached the tool invocation of
\* execution_order[pos] (Invoking), or its return statement (Finished);
\* invoked lists the invocations it made since it was last suspended
Invoking(workflow, stack, execution_order, pos, invoked) ==
    LET invocation == Invocation(workflow, execution_order, pos) IN
    [done |-> FALSE, workflow |-> workflow, stack |-> stack, replayed |-> <<>>,
     execution_order |-> execution_order, pos |-> pos,
     invocation |-> invocation, invoked |-> Append(invoked, invocation)]

Finished(workflow, stack, replayed, invoked, response) ==
    [done |-> TRUE, workflow |-> workflow, stack |-> stack, replayed |-> replayed,
     invoked |-> invoked, response |-> response]

Completed(workflow, workflow_id, stack, invoked) ==
    Finished([workflow EXCEPT !.status = "completed"], stack, <<>>, invoked,
             [success |-> TRUE, workflow_id |-> workflow_id,
              completed_steps |-> completed_steps(workflow),
              total_steps |-> total_steps(workflow)])

\* the except branch of execute_workflow
Failed(workflow, workflow_id, stack, invoked, error) ==
    LET f == handle_workflow_failure(workflow, workflow_id, stack) IN
    Finished(f.workflow, f.stack, f.replayed, invoked,
             [success |-> FALSE, error |-> error, rollback_performed |-> TRUE])

\* the abort branch of execute_workflow after a failed step
Aborted(workflow, workflow_id, stack, invoked, failed_step) ==
    LET f == handle_workflow_failure(workflow, workflow_id, stack) IN
    Finished(f.workflow, f.stack, f.replayed, invoked,
             [success |-> FALSE, error |-> "Workflow failed at step",
              failed_step |-> failed_step, rollback_performed |-> TRUE])

\* the steps are run as the plan lists them, without resolving an order
BeginInDeclaredOrder(workflow, workflow_id, stack) ==
    LET w == [workflow EXCEPT !.status = "in_progress"]
        order == declared_order(w.steps)
    IN  IF order.order = <<>>
        THEN Completed(w, workflow_id, stack, <<>>)
        ELSE Invoking(w, stack, order.order, 1, <<>>)

\* execute_workflow from its first line to its first tool invocation
Begin(workflow, workflow_id, stack) ==
    LET w == [workflow EXCEPT !.status = "in_progress"]
        order == resolve_execution_order(w.steps)
    IN  IF ~order.ok
        THEN Failed(w, workflow_id, stack, <<>>, "Cannot resolve execution order")
        ELSE IF order.order = <<>>
        THEN Completed(w, workflow_id, stack, <<>>)
        ELSE Invoking(w, stack, order.order, 1, <<>>)

\* a failed step is marked and the loop goes on to the next step
StepDoneContinues(workflow, workflow_id, stack, execution_order, pos, invoked, outcome) ==
    LET i == StepIndex(workflow.steps, execution_order[pos])
        w == IF outcome.success
             THEN [workflow EXCEPT !.steps[i].status = "completed",
                                   !.steps[i].result = outcome.result]
             ELSE [workflow EXCEPT !.steps[i].status = "failed",
                                   !.steps[i].error = outcome.error]
        pushed == IF outcome.success /\ Truthy(w.steps[i].rollback_info)
                  THEN Append(stack, [workflow_id |-> workflow_id, step |-> i,
                                      rollback_info |-> w.steps[i].rollback_info])
                  ELSE stack
    IN  IF pos < Len(execution_order)
        THEN Invoking(w, pushed, execution_order, pos + 1, invoked)
        ELSE Completed(w, workflow_id, pushed, invoked)

\* execute_workflow from the outcome of the tool invoked for the step at pos
\* to the next tool invocation
StepDone(workflow, workflow_id, stack, execution_order, pos, invoked, outcome) ==
    LET i == StepIndex(workflow.steps, execution_order[pos]) IN
    IF outcome.success
    THEN LET w == [workflow EXCEPT !.steps[i].status = "completed",
                                   !.steps[i].result = outcome.result]
             pushed == IF Truthy(w.steps[i].rollback_info)
                       THEN Append(stack, [workflow_id |-> workflow_id, step |-> i,
                                           rollback_info |-> w.steps[i].rollback_info])
                       ELSE stack
         IN  IF pos < Len(execution_order)
             THEN Invoking(w, pushed, execution_order, pos + 1, invoked)
             ELSE Completed(w, workflow_id, pushed, invoked)
    ELSE Aborted([workflow EXCEPT !.steps[i].status = "failed",
                                  !.steps[i].error = outcome.error],
                 workflow_id, stack, invoked, workflow.steps[i].id)

\* a progress callback is the set of ids of the steps it raises for: empty
\* for no callback and for the orchestrator's _progress_callback, which logs
NoCallback == {}

\* the call runs on through the progress callbacks and through the
\* invocations that do not suspend it; a callback that raises for the step
\* takes the call to the except branch before the tool is invoked
RECURSIVE RunOn(_, _, _)
RunOn(x, workflow_id, progress_callback) ==
    IF x.done THEN x
    ELSE IF x.workflow.steps[x.invocation.step].id \in progress_callback
    THEN Failed(x.workflow, workflow_id, x.stack,
                SubSeq(x.invoked, 1, Len(x.invoked) - 1), "progress callback failed")
    ELSE IF Suspends(x.invocation) THEN x
    ELSE RunOn(StepDone(x.workflow, workflow_id, x.stack, x.execution_order,
                        x.pos, x.invoked, ImmediateOutcome(x.invocation)),
               workflow_id, progress_callback)

\* execute_workflow from its first line
Start(workflow, workflow_id, stack, progress_callback) ==
    RunOn(Begin(workflow, workflow_id, stack), workflow_id, progress_callback)

\* execute_workflow from the answer of the client it was suspended in
Resume(workflow, workflow_id, stack, execution_order, pos, outcome, progress_callback) ==
    RunOn(StepDone(workflow, workflow_id, stack, execution_order, pos, <<>>, outcome),
          workflow_id, progress_callback)

(***************************************************************************)
(* Bookkeeping shared by the entry points.                                 *)
(***************************************************************************)
\* plans given directly to WorkflowExecutor.execute_workflow by a caller:
\* three steps on a client tool, c after a and b
DirectStep(id, dependencies, rollback_info) ==
    WorkflowStep(id, "search_workbooks", [project_name |-> VStr("Finance")], "update",
                 dependencies, rollback_info)

DirectPlan(da, ra, rb, supported) ==
    WorkflowPlan("Direct",
        << DirectStep("a", da, ra), DirectStep("b", <<>>, rb),
           DirectStep("c", <<"a", "b">>, NoRollback) >>,
        5, "low", FALSE, supported)

\* a after b, both undoable; a's descriptor malformed; rollback unsupported;
\* a depending on itself
DirectPlans ==
    {DirectPlan(<<"b">>, RollbackInfo("undo_a"), RollbackInfo("undo_b"), TRUE),
     DirectPlan(<<"b">>, VStr("undo_a"), RollbackInfo("undo_b"), TRUE),
     DirectPlan(<<>>, RollbackInfo("undo_a"), NoRollback, FALSE),
     DirectPlan(<<"a">>, RollbackInfo("undo_a"), NoRollback, TRUE)}

Without(f, id) == [i \in (DOMAIN f) \ {id} |-> f[i]]

With(f, id, value) == [i \in (DOMAIN f) \cup {id} |-> IF i = id THEN value ELSE f[i]]

Dispatched(workflow_id) ==
    IF workflow_id \in DOMAIN dispatched THEN dispatched[workflow_id] ELSE <<>>

\* the pending entry is dropped only when the execution succeeded
registry_after_success(op, workflow_id, response) ==
    IF op = "confirm" /\ response.success THEN active_workflows \ {workflow_id}
    ELSE active_workflows

\* confirm_workflow deletes the pending entry once execute_workflow has
\* returned; process_workflow_request and a direct caller have none
registry_after_execution(op, workflow_id, response) ==
    IF op = "confirm" THEN active_workflows \ {workflow_id} ELSE active_workflows

\* the executor's entry is deleted only when the execution succeeded
executor_cleanup_on_success(workflow_id, response) ==
    IF response.success THEN executor_active \ {workflow_id} ELSE executor_active

\* the finally block of execute_workflow
executor_cleanup(workflow_id, response) == executor_active \ {workflow_id}

\* the variables after the execute_workflow call of `op` on plan workflow_id,
\* held in task slot t, has run to x (see Invoking, Finished); a plan object
\* is dropped once neither registry nor a suspended call refers to it
Commit(op, workflow_id, t, x, progress_callback) ==
    /\ rollback_stack' = x.stack
    /\ IF x.done
       THEN /\ tasks' = [tasks EXCEPT ![t] = NoTask]
            /\ executor_active' = executor_cleanup(workflow_id, x.response)
            /\ active_workflows' = registry_after_execution(op, workflow_id, x.response)
            /\ LET live == \/ workflow_id \in active_workflows'
                           \/ \E u \in (1..MaxTasks) \ {t} :
                                 /\ tasks[u] # NoTask
                                 /\ tasks[u].workflow_id = workflow_id
               IN  /\ plans' = IF live THEN With(plans, workflow_id, x.workflow)
                               ELSE Without(plans, workflow_id)
                   /\ dispatched' = IF live
                                    THEN With(dispatched, workflow_id,
                                              Dispatched(workflow_id) \o x.invoked)
                                    ELSE Without(dispatched, workflow_id)
            /\ lastEvent' = [op |-> op, known |-> TRUE, confirmed |-> op = "confirm",
                             workflow_id |-> workflow_id,
                             response |-> x.response,
                             workflow |-> x.workflow,
                             replayed |-> x.replayed,
                             dispatched |-> Dispatched(workflow_id) \o x.invoked]
       ELSE /\ tasks' = [tasks EXCEPT ![t] =
                            [op |-> op, workflow_id |-> workflow_id,
                             progress_callback |-> progress_callback,
                             execution_order |-> x.execution_order,
                             pos |-> x.pos, invocation |-> x.invocation]]
            /\ executor_active' = executor_active \cup {workflow_id}
            /\ active_workflows' = active_workflows
            /\ plans' = With(plans, workflow_id, x.workflow)
            /\ dispatched' = With(dispatched, workflow_id,
                                  Dispatched(workflow_id) \o x.invoked)
            /\ lastEvent' = NoEvent

\* a call that enters execute_workflow needs a slot to be suspended in
Slot == CHOOSE t \in 1..MaxTasks : tasks[t] = NoTask /\ \A u \in 1..(t - 1) : tasks[u] # NoTask

(***************************************************************************)
(* WorkflowOrchestrator entry points and WorkflowExecutor.execute_workflow.*)
(***************************************************************************)
\* confirmation is asked for only when parser and validator both demand it
NeedsBothConfirmations(workflow, validation) ==
    workflow.requires_confirmation /\ validation.risk_assessment.requires_confirmation

\* only the validator's assessment decides whether confirmation is asked for
validator_demands_confirmation(workflow, validation) ==
    validation.risk_assessment.requires_confirmation

\* the test of process_workflow_request before it stores the plan
NeedsConfirmation(workflow, validation) ==
    workflow.requires_confirmation \/ validation.risk_assessment.requires_confirmation

\* process_workflow_request from the plan its intent parser returned
process_parsed_workflow(request, workflow, validation) ==
    LET workflow_id == next_id + 1
    IN  /\ next_id < MaxPlans
        /\ next_id' = workflow_id
        /\ IF ~validation.valid
           THEN /\ lastEvent' = [op |-> "process", known |-> TRUE,
                                 workflow_id |-> workflow_id, request |-> request,
                                 workflow |-> workflow,
                                 response |-> [success |-> FALSE,
                                               error |-> "Workflow validation failed",
                                               errors |-> validation.errors,
                                               warnings |-> validation.warnings]]
                /\ UNCHANGED <<plans, active_workflows, executor_active,
                               rollback_stack, tasks, dispatched>>
           ELSE IF NeedsConfirmation(workflow, validation)
           THEN /\ active_workflows' = active_workflows \cup {workflow_id}
                /\ plans' = With(plans, workflow_id, workflow)
                /\ dispatched' = With(dispatched, workflow_id, <<>>)
                /\ lastEvent' = [op |-> "process", known |-> TRUE,
                                 workflow_id |-> workflow_id, request |-> request,
                                 response |-> [success |-> TRUE,
                                               status |-> "confirmation_required",
                                               workflow_id |-> workflow_id,
                                               steps |-> Len(workflow.steps),
                                               estimated_duration |-> workflow.estimated_duration,
                                               risk_assessment |-> validation.risk_assessment]]
                /\ UNCHANGED <<executor_active, rollback_stack, tasks>>
           ELSE /\ FreeSlots # {}
                /\ Commit("process", workflow_id, Slot,
                          Start(workflow, workflow_id, rollback_stack, NoCallback),
                          NoCallback)

process_workflow_request(request) ==
    process_parsed_workflow(request, ParsedRequest[request], Validation[request])

\* the answer is a success that carries the message
nothing_found(error) == [success |-> TRUE, error |-> error]

\* the answer of confirm_workflow and get_workflow_status for an id that is
\* not a key of active_workflows
not_found(error) == [success |-> FALSE, error |-> error]

\* the plan is marked CANCELLED and its pending entry is kept
cancel_keeps_entry(workflow_id) ==
    /\ active_workflows' = active_workflows
    /\ plans' = [plans EXCEPT ![workflow_id].status = "cancelled"]
    /\ dispatched' = dispatched
    /\ lastEvent' = [op |-> "confirm", known |-> TRUE,
                     workflow_id |-> workflow_id, confirmed |-> FALSE,
                     response |-> [success |-> TRUE, status |-> "cancelled"],
                     workflow |-> [plans[workflow_id] EXCEPT !.status = "cancelled"],
                     replayed |-> <<>>,
                     dispatched |-> dispatched[workflow_id]]
    /\ UNCHANGED <<next_id, executor_active, rollback_stack, tasks>>

\* confirm_workflow(workflow_id, False) on a registered plan
cancel_workflow(workflow_id) ==
    /\ active_workflows' = active_workflows \ {workflow_id}
    /\ plans' = IF workflow_id \in InFlight
                THEN [plans EXCEPT ![workflow_id].status = "cancelled"]
                ELSE Without(plans, workflow_id)
    /\ dispatched' = IF workflow_id \in InFlight THEN dispatched
                     ELSE Without(dispatched, workflow_id)
    /\ lastEvent' = [op |-> "confirm", known |-> TRUE,
                     workflow_id |-> workflow_id, confirmed |-> FALSE,
                     response |-> [success |-> TRUE, status |-> "cancelled"],
                     workflow |-> [plans[workflow_id] EXCEPT !.status = "cancelled"],
                     replayed |-> <<>>,
                     dispatched |-> dispatched[workflow_id]]
    /\ UNCHANGED <<next_id, executor_active, rollback_stack, tasks>>

confirm_workflow(workflow_id, confirmed) ==
    IF workflow_id \notin active_workflows
    THEN /\ lastEvent' = [op |-> "confirm", known |-> FALSE, confirmed |-> confirmed,
                          response |-> not_found("Workflow not found or expired")]
         /\ UNCHANGED <<next_id, plans, active_workflows, executor_active,
                        rollback_stack, tasks, dispatched>>
    ELSE IF ~confirmed
    THEN cancel_workflow(workflow_id)
    ELSE /\ FreeSlots # {}
         /\ Commit("confirm", workflow_id, Slot,
                   Start(plans[workflow_id], workflow_id, rollback_stack, NoCallback),
                   NoCallback)
         /\ UNCHANGED next_id

\* _get_current_step: the first step with status IN_PROGRESS, if any
get_current_step(workflow) ==
    LET current == {i \in 1..Len(workflow.steps) :
                       workflow.steps[i].status = "in_progress"}
    IN  IF current = {} THEN "None"
        ELSE workflow.steps[CHOOSE i \in current : \A j \in current : i <= j].id

\* an id that is not registered leaves no trace of itself in lastEvent
get_workflow_status(workflow_id) ==
    /\ lastEvent' =
         IF workflow_id \in active_workflows
         THEN LET workflow == plans[workflow_id] IN
              [op |-> "status", known |-> TRUE, workflow_id |-> workflow_id,
               response |->
                 IF workflow.status = NoStatus
                 THEN [raised |-> "AttributeError: 'WorkflowPlan' object has no attribute 'status'"]
                 ELSE [workflow_id |-> workflow_id,
                       status |-> workflow.status,
                       completed_steps |-> completed_steps(workflow),
                       total_steps |-> total_steps(workflow),
                       current_step |-> get_current_step(workflow)]]
         ELSE [op |-> "status", known |-> FALSE,
               response |-> not_found("Workflow not found")]
    /\ UNCHANGED <<next_id, plans, active_workflows, executor_active,
                   rollback_stack, tasks, dispatched>>

\* a caller runs a plan of its own on the executor
execute_workflow(workflow, progress_callback) ==
    /\ next_id < MaxPlans
    /\ FreeSlots # {}
    /\ next_id' = next_id + 1
    /\ Commit("execute", next_id + 1, Slot,
              Start(workflow, next_id + 1, rollback_stack, progress_callback),
              progress_callback)

\* the tool invoked by the call in slot t returns or raises, and the call
\* runs on to its next tool invocation or to its return
StepReturns(t, outcome) ==
    /\ tasks[t] # NoTask
    /\ Commit(tasks[t].op, tasks[t].workflow_id, t,
              Resume(plans[tasks[t].workflow_id], tasks[t].workflow_id,
                     rollback_stack, tasks[t].execution_order, tasks[t].pos,
                     outcome, tasks[t].progress_callback),
              tasks[t].progress_callback)
    /\ UNCHANGED next_id

Next ==
    \/ \E request \in Requests : process_workflow_request(request)
    \/ \E workflow_id \in 1..MaxPlans, confirmed \in BOOLEAN :
          workflow_id \notin InFlight /\ confirm_workflow(workflow_id, confirmed)
    \/ \E workflow_id \in 1..MaxPlans : get_workflow_status(workflow_id)
    \/ \E workflow \in DirectPlans : execute_workflow(workflow, NoCallback)
    \/ \E t \in 1..MaxTasks, outcome \in ClientOutcomes : StepReturns(t, outcome)

Spec == Init /\ [][Next]_vars

(***************************************************************************)
(* SpecGraph: one execution of one plan on a fresh executor, the plan       *)
(* ranging over the dependency graphs of GraphSteps steps that declare at  *)
(* most GraphDeps dependencies each (on themselves, on each other, in      *)
(* cycles).                                                                *)
(***************************************************************************)
StepId(i) == SubSeq("abcdefgh", i, i)

GraphIds == {StepId(i) : i \in 1..GraphSteps}

\* a dependencies list holding the ids of S
RECURSIVE ListOf(_)
ListOf(S) ==
    IF S = {} THEN <<>>
    ELSE LET id == CHOOSE x \in S : TRUE IN <<id>> \o ListOf(S \ {id})

GraphPlan(deps) ==
    WorkflowPlan("Graph",
        [i \in 1..GraphSteps |->
            WorkflowStep(StepId(i), "search_workbooks", [project_name |-> VStr("Finance")],
                         "read", ListOf(deps[i]), NoRollback)],
        5, "low", FALSE, TRUE)

GraphPlans ==
    {GraphPlan(deps) : deps \in [1..GraphSteps ->
                                    {S \in SUBSET GraphIds : Cardinality(S) <= GraphDeps}]}

\* an id that no step of a graph has
MissingId == StepId(GraphSteps + 1)

\* the graphs with at most one dependency a step in which one step depends
\* also on the id that no step has
DanglingPlans ==
    {GraphPlan([deps EXCEPT ![i] = deps[i] \cup {MissingId}]) :
        deps \in [1..GraphSteps -> {S \in SUBSET GraphIds : Cardinality(S) <= 1}],
        i \in 1..GraphSteps}

NextGraph ==
    \/ next_id = 0 /\ \E workflow \in GraphPlans \cup DanglingPlans :
            execute_workflow(workflow, NoCallback)
    \/ \E t \in 1..MaxTasks, outcome \in ClientOutcomes : StepReturns(t, outcome)

SpecGraph == Init /\ [][NextGraph]_vars

(***************************************************************************)
(* WorkflowExecutor.execute_workflow called by callers of their own, up to *)
(* MaxPlans executions interleaved at the tool invocations, with and       *)
(* without a progress callback that raises.                                *)
(***************************************************************************)
\* no callback; one that raises for the first step that can run; one that
\* raises for the last step, when the others have completed
DirectCallbacks == {NoCallback, {"b"}, {"c"}}

NextExecutor ==
    \/ \E workflow \in DirectPlans, progress_callback \in DirectCallbacks :
          execute_workflow(workflow, progress_callback)
    \/ \E t \in 1..MaxTasks, outcome \in ClientOutcomes : StepReturns(t, outcome)

SpecExecutor == Init /\ [][NextExecutor]_vars

(***************************************************************************)
(* SpecReentrant: confirm_workflow is also called for a plan whose         *)
(* execution is suspended at a tool invocation (the plan stays in          *)
(* active_workflows until execute_workflow has returned).                  *)
(***************************************************************************)
NextReentrant ==
    \/ \E request \in Requests : process_workflow_request(request)
    \/ \E workflow_id \in 1..MaxPlans, confirmed \in BOOLEAN :
          confirm_workflow(workflow_id, confirmed)
    \/ \E t \in 1..MaxTasks, outcome \in ClientOutcomes : StepReturns(t, outcome)

SpecReentrant == Init /\ [][NextReentrant]_vars

(***************************************************************************)
(* _resolve_execution_order pass by pass, on the same graphs: lastEvent    *)
(* holds the locals of the call (executed, execution_order) and how the    *)
(* call ended.  The loop is synchronous code, so a pass that can run runs. *)
(***************************************************************************)
\* the call is entered: nothing is executed, the order is empty
ResolveEntered(workflow) ==
    /\ lastEvent' = [op |-> "resolve", steps |-> workflow.steps,
                     executed |-> {}, execution_order |-> <<>>,
                     outcome |-> "running"]
    /\ UNCHANGED <<next_id, plans, active_workflows, executor_active,
                   rollback_stack, tasks, dispatched>>

\* the test of the while loop and, when it holds, one pass of its body: the
\* first step that can run is appended, or ValueError is raised when the for
\* loop finds none
ResolvePass ==
    /\ lastEvent.op = "resolve" /\ lastEvent.outcome = "running"
    /\ lastEvent' =
          IF Len(lastEvent.execution_order) >= Len(lastEvent.steps)
          THEN [lastEvent EXCEPT !.outcome = "returned"]
          ELSE LET i == NextExecutable(lastEvent.steps, lastEvent.executed) IN
               IF i = 0
               THEN [lastEvent EXCEPT !.outcome = "raised"]
               ELSE [lastEvent EXCEPT
                        !.executed = @ \cup {lastEvent.steps[i].id},
                        !.execution_order = Append(@, lastEvent.steps[i].id)]
    /\ UNCHANGED <<next_id, plans, active_workflows, executor_active,
                   rollback_stack, tasks, dispatched>>

NextResolver ==
    \/ lastEvent = NoEvent /\ \E workflow \in GraphPlans \cup DanglingPlans :
            ResolveEntered(workflow)
    \/ ResolvePass

SpecResolver == Init /\ [][NextResolver]_vars /\ WF_vars(ResolvePass)

(***************************************************************************)
(* The validator called on its own, as test_workflow_validation calls it:  *)
(* validate_workflow applied to the plans the parser builds, to plans of   *)
(* up to MaxWeighted DELETE, MOVE and UPDATE steps each followed by up to  *)
(* MaxUnweighted steps of one other operation type, and to plans of up to  *)
(* MaxToolSteps steps that name client tools, move tools with and without  *)
(* a target project, a pseudo-tool and a tool nobody provides.             *)
(***************************************************************************)
MaxWeighted == 3

MaxUnweighted == 11

MaxToolSteps == 3

Repeat(operation_type, count) == [i \in 1..count |-> operation_type]

\* a plan of one search step per operation type of the list, the plan's
\* other fields at the dataclass defaults
PlanOf(operation_types) ==
    WorkflowPlan("Plan",
        [i \in 1..Len(operation_types) |->
            WorkflowStep("step_" \o ToString(i), "search_workbooks",
                         [name |-> VStr("")], operation_types[i], <<>>, NoRollback)],
        5, "low", FALSE, TRUE)

WeightedPlans ==
    {PlanOf(Repeat("delete", deletes) \o Repeat("move", moves)
            \o Repeat("update", updates) \o Repeat(other, others)) :
        deletes \in 0..MaxWeighted, moves \in 0..MaxWeighted,
        updates \in 0..MaxWeighted, others \in 0..MaxUnweighted,
        other \in OperationType \ {"delete", "move", "update"}}

\* the tool, arguments and operation type of the steps of ToolPlans
ToolSteps ==
    {[tool_name |-> "search_workbooks", operation_type |-> "read",
      arguments |-> [name |-> VStr("")]],
     [tool_name |-> "archive_everything", operation_type |-> "read",
      arguments |-> [name |-> VStr("")]],
     [tool_name |-> "move_workbook", operation_type |-> "move",
      arguments |-> [workbook_id |-> VStr("wb-1")]],
     [tool_name |-> "move_workbook", operation_type |-> "move",
      arguments |-> [workbook_id |-> VStr("wb-1"), target_project_id |-> VStr("p-1")]],
     [tool_name |-> "move_datasource", operation_type |-> "move",
      arguments |-> [datasource_id |-> VStr("ds-1")]],
     [tool_name |-> "move_datasource", operation_type |-> "move",
      arguments |-> [datasource_id |-> VStr("ds-1"),
                     target_project_name |-> VStr("Archive")]],
     [tool_name |-> "bulk_move_content", operation_type |-> "move",
      arguments |-> [items |-> VList(<<>>)]]}

ToolPlan(tool_steps) ==
    WorkflowPlan("Plan",
        [i \in 1..Len(tool_steps) |->
            WorkflowStep("step_" \o ToString(i), tool_steps[i].tool_name,
                         tool_steps[i].arguments, tool_steps[i].operation_type,
                         <<>>, NoRollback)],
        5, "low", FALSE, TRUE)

ToolPlans ==
    {ToolPlan(tool_steps) :
        tool_steps \in UNION {[1..n -> ToolSteps] : n \in 1..MaxToolSteps}}

ValidatorPlans ==
    WeightedPlans \cup ToolPlans \cup {ParsedRequest[request] : request \in Requests}

\* the level of the assessment is written to the plan before the call returns
ValidateOverwriting(workflow) ==
    /\ lastEvent' = [op |-> "validate",
                     workflow |-> [workflow EXCEPT !.risk_level =
                                      validate_workflow(workflow).risk_assessment.level],
                     validation |-> validate_workflow(workflow)]
    /\ UNCHANGED <<next_id, plans, active_workflows, executor_active,
                   rollback_stack, tasks, dispatched>>

\* validator.validate_workflow(workflow): the call returns the validation
\* and leaves the plan object as it got it
Validate(workflow) ==
    /\ lastEvent' = [op |-> "validate", workflow |-> workflow,
                     validation |-> validate_workflow(workflow)]
    /\ UNCHANGED <<next_id, plans, active_workflows, executor_active,
                   rollback_stack, tasks, dispatched>>

\* one call in each behaviour
NextValidator ==
    lastEvent = NoEvent /\ \E workflow \in ValidatorPlans : Validate(workflow)

SpecValidator == Init /\ [][NextValidator]_vars

(***************************************************************************)
(* The intent parser called on its own, as test_workflow_parsing calls it: *)
(* parse_workflow_intent applied to requests of up to MaxPhrases phrases,  *)
(* the phrases being the trigger phrases of the three templates, the read  *)
(* keywords, some of them capitalised, and words that trigger nothing.     *)
(***************************************************************************)
MaxPhrases == 2

Phrases ==
    cleanup_patterns \cup migration_patterns \cup audit_patterns \cup read_keywords
    \cup {"Clean Up", "MIGRATE", "Audit", "List", "workbooks", "set up new project"}

\* the phrases of the sequence, separated by blanks
RECURSIVE Sentence(_)
Sentence(phrases) ==
    IF phrases = <<>> THEN ""
    ELSE IF Len(phrases) = 1 THEN phrases[1]
    ELSE phrases[1] \o " " \o Sentence(Tail(phrases))

ParserRequests ==
    {Sentence(phrases) : phrases \in UNION {[1..n -> Phrases] : n \in 0..MaxPhrases}}

\* parser.parse_workflow_intent(request) returns the plan
Parse(request) ==
    /\ lastEvent' = [op |-> "parse", request |-> request,
                     workflow |-> parse_workflow_intent(request)]
    /\ UNCHANGED <<next_id, plans, active_workflows, executor_active,
                   rollback_stack, tasks, dispatched>>

\* one call in each behaviour
NextParser ==
    lastEvent = NoEvent /\ \E request \in ParserRequests : Parse(request)

SpecParser == Init /\ [][NextParser]_vars

(***************************************************************************)
(* _resolve_template_variables called on its own: one argument, a          *)
(* reference or a literal, resolved against plans of MaxResultSteps steps  *)
(* that are PENDING, COMPLETED with a result (a dict, a nested dict, the   *)
(* JSON string of a client tool, an empty dict) or FAILED (with the result *)
(* of an earlier run or without one).                                      *)
(***************************************************************************)
MaxResultSteps == 2

\* status and result of a step once execute_workflow has worked on its plan
StepOutcomes ==
    LET results == {VDict([candidates |-> VList(<<VStr("wb-1")>>)]),
                    VDict([candidates |-> VList(<<>>), total |-> VInt(2)]),
                    VDict([analysis |-> VDict([candidates |-> VStr("nested")])]),
                    VDict(<<>>),
                    VStr("{\"candidates\": []}")}
    IN  {[status |-> "pending", result |-> VNone],
         [status |-> "failed", result |-> VNone],
         [status |-> "failed", result |-> VDict([candidates |-> VStr("stale")])]}
        \cup {[status |-> "completed", result |-> result] : result \in results}

ResultPlan(outcomes) ==
    WorkflowPlan("Plan",
        [i \in 1..Len(outcomes) |->
            [WorkflowStep("step_" \o ToString(i), "search_workbooks",
                          [name |-> VStr("")], "read", <<>>, NoRollback)
                EXCEPT !.status = outcomes[i].status, !.result = outcomes[i].result]],
        5, "low", FALSE, TRUE)

ResultPlans == {ResultPlan(outcomes) : outcomes \in [1..MaxResultSteps -> StepOutcomes]}

\* the values of the argument: references, with and without blanks, to a key,
\* to a nested key and to keys no result has; literals
ArgumentValues ==
    {VStr("{{candidates}}"), VStr("{{ candidates }}"), VStr("{{total}}"),
     VStr("{{analysis.candidates}}"), VStr("{{analysis.missing}}"),
     VStr("{{identified_candidates}}"), VStr("{{candidates}} and more"),
     VStr("Finance"), VStr(""), VInt(90), VBool(TRUE), VList(<<VStr("{{candidates}}")>>)}

\* executor._resolve_template_variables({"items": value}, workflow) returns
ResolveTemplates(value, workflow) ==
    /\ lastEvent' = [op |-> "resolve_templates", workflow |-> workflow,
                     arguments |-> [items |-> value],
                     resolved |-> resolve_template_variables([items |-> value], workflow)]
    /\ UNCHANGED <<next_id, plans, active_workflows, executor_active,
                   rollback_stack, tasks, dispatched>>

\* one call in each behaviour
NextTemplates ==
    lastEvent = NoEvent /\ \E value \in ArgumentValues, workflow \in ResultPlans :
        ResolveTemplates(value, workflow)

SpecTemplates == Init /\ [][NextTemplates]_vars

(***************************************************************************)
(* process_workflow_request with its intent parser left open: the parser   *)
(* returns any plan of ToolPlans for the one request of a behaviour.       *)
(***************************************************************************)
NextParsed ==
    \/ next_id = 0 /\ \E workflow \in ToolPlans :
            process_parsed_workflow("Move the content", workflow,
                                    validate_workflow(workflow))
    \/ \E t \in 1..MaxTasks, outcome \in ClientOutcomes : StepReturns(t, outcome)

SpecParsed == Init /\ [][NextParsed]_vars

(***************************************************************************)
(* Properties.  lastEvent is set by every step, so a state in which it     *)
(* describes a call is the state that call returned in.                    *)
(***************************************************************************)
\* the call that has just returned ran execute_workflow to its return
ExecutionReturned ==
    "replayed" \in DOMAIN lastEvent /\ (lastEvent.op = "confirm" => lastEvent.confirmed)

\* the call that has just returned was confirm_workflow(id, False) on a
\* registered plan
CancelReturned == lastEvent.op = "confirm" /\ lastEvent.known /\ ~lastEvent.confirmed

\* the call that has just returned was a process_workflow_request that
\* answered confirmation_required
PendingReturned ==
    /\ lastEvent.op = "process"
    /\ "request" \in DOMAIN lastEvent
    /\ "status" \in DOMAIN lastEvent.response

\* either flag of the plan: its own, or the one the validator computes
EitherFlag(workflow) ==
    workflow.requires_confirmation \/ assess_risk(workflow).requires_confirmation

Terminal == {"completed", "failed", "rolled_back", "cancelled"}

\* C1: process_workflow_request dispatches no step when the plan's own
\* requires_confirmation flag or the validator's is true: the plan is then
\* stored unchanged in the registry under its id and the response says
\* confirmation_required with that id; a plan that process_workflow_request
\* executes has both flags false and is not in the registry.
C1_ConfirmationGate ==
    /\ PendingReturned =>
          /\ lastEvent.response.status = "confirmation_required"
          /\ lastEvent.response.success
          /\ lastEvent.response.workflow_id = lastEvent.workflow_id
          /\ lastEvent.workflow_id \in active_workflows
          /\ plans[lastEvent.workflow_id] = ParsedRequest[lastEvent.request]
          /\ EitherFlag(ParsedRequest[lastEvent.request])
    /\ \A id \in active_workflows \ InFlight :
          EitherFlag(plans[id]) /\ dispatched[id] = <<>>
    /\ \A t \in 1..MaxTasks :
          tasks[t].op = "process" =>
             /\ ~EitherFlag(plans[tasks[t].workflow_id])
             /\ tasks[t].workflow_id \notin active_workflows
    /\ (ExecutionReturned /\ lastEvent.op = "process") =>
          /\ ~EitherFlag(lastEvent.workflow)
          /\ lastEvent.workflow_id \notin active_workflows

\* a plan waits for confirmation, just stored, while a plan that needed none
\* is being executed for process_workflow_request
C1_Witness ==
    /\ PendingReturned
    /\ \E t \in 1..MaxTasks : tasks[t].op = "process"

\* the dependencies of the step an invocation was made for were all COMPLETED
\* when it was made
DependenciesCompleted(workflow, invocation) ==
    \A d \in 1..Len(workflow.steps[invocation.step].dependencies) :
        workflow.steps[invocation.step].dependencies[d] \in invocation.completed

\* C2: within one execution of a plan, the tool of a step is invoked only
\* when every step id in its dependencies has status COMPLETED, whatever the
\* dependency graph of the plan.
C2_DispatchAfterDependencies ==
    /\ \A id \in DOMAIN dispatched :
          \A k \in 1..Len(dispatched[id]) :
              DependenciesCompleted(plans[id], dispatched[id][k])
    /\ ExecutionReturned =>
          \A k \in 1..Len(lastEvent.dispatched) :
              DependenciesCompleted(lastEvent.workflow, lastEvent.dispatched[k])

\* every step of a plan was dispatched, the last listed step first and the
\* first listed step, which declares two dependencies, last
C2_Witness ==
    /\ ExecutionReturned
    /\ Len(lastEvent.dispatched) = GraphSteps
    /\ lastEvent.dispatched[1].step = GraphSteps
    /\ lastEvent.dispatched[GraphSteps].step = 1
    /\ Len(lastEvent.workflow.steps[1].dependencies) = 2

\* C3: confirm_workflow(id, False) on a pending plan invokes no tool, leaves
\* the rollback stack, the suspended calls and every step of the plan as they
\* were, sets the plan's status to CANCELLED and deletes the plan from the
\* registry; an id once out of the registry never comes back into it, so
\* later calls with it find nothing.
C3_CancelDiscards ==
    [][ /\ (lastEvent'.op = "confirm" /\ lastEvent'.known /\ ~lastEvent'.confirmed) =>
             /\ lastEvent'.workflow_id \in active_workflows
             /\ lastEvent'.workflow_id \notin active_workflows'
             /\ lastEvent'.response.success
             /\ lastEvent'.response.status = "cancelled"
             /\ lastEvent'.workflow.status = "cancelled"
             /\ lastEvent'.workflow.steps = plans[lastEvent'.workflow_id].steps
             /\ \A i \in 1..Len(lastEvent'.workflow.steps) :
                    lastEvent'.workflow.steps[i].status = "pending"
             /\ lastEvent'.dispatched = <<>>
             /\ UNCHANGED <<rollback_stack, tasks, executor_active>>
             /\ \A id \in DOMAIN plans' : plans'[id] = plans[id] /\ dispatched'[id] = dispatched[id]
        /\ \A id \in 1..next_id : id \notin active_workflows => id \notin active_workflows'
      ]_vars

\* a pending plan has just been cancelled while the rollback stack held
\* records of an earlier plan
C3_Witness == CancelReturned /\ rollback_stack # <<>>

\* C4: when confirm_workflow(id, True) on a pending plan has returned, the id
\* is out of the registry whether execute_workflow ended in success or in
\* failure; no plan in the registry has a terminal status.
C4_TerminalPlansLeaveRegistry ==
    /\ (ExecutionReturned /\ lastEvent.op = "confirm") =>
          /\ lastEvent.workflow_id \notin active_workflows
          /\ lastEvent.workflow.status \in Terminal
          /\ lastEvent.dispatched # <<>>
    /\ CancelReturned => lastEvent.workflow_id \notin active_workflows
    /\ \A id \in active_workflows : plans[id].status \notin Terminal

\* a confirmed plan has just failed at one of its steps
C4_Witness ==
    /\ ExecutionReturned
    /\ lastEvent.op = "confirm"
    /\ ~lastEvent.response.success
    /\ lastEvent.workflow.status \in {"failed", "rolled_back"}

\* C5: confirm_workflow and get_workflow_status called with an id that is not
\* in the registry answer a failure whose error says "not found", invoke no
\* tool and leave the registry, the rollback stack, the plans and the
\* suspended calls unchanged.
C5_UnknownIdNotFound ==
    [][ \A workflow_id \in 1..MaxPlans :
          ( /\ workflow_id \notin active_workflows
            /\ \/ get_workflow_status(workflow_id)
               \/ \E confirmed \in BOOLEAN : confirm_workflow(workflow_id, confirmed) ) =>
             /\ ~lastEvent'.response.success
             /\ Contains(lastEvent'.response.error, "not found")
             /\ UNCHANGED <<next_id, plans, active_workflows, executor_active,
                            rollback_stack, tasks, dispatched>>
      ]_vars

\* an unregistered id has just been refused while another plan was pending
\* and the rollback stack held records
C5_Witness ==
    /\ lastEvent.op \in {"confirm", "status"}
    /\ ~lastEvent.known
    /\ active_workflows # {}
    /\ rollback_stack # <<>>

\* the call that has just returned ran execute_workflow until a step failed
StepFailureReturned == ExecutionReturned /\ "failed_step" \in DOMAIN lastEvent.response

\* C6: when the tool invoked for a step fails, the step gets status FAILED
\* and the error message, the execution ends there with a failure (the failed
\* step is the last one dispatched and the call is no longer running), the
\* steps dispatched before it keep status COMPLETED and the others stay
\* PENDING; an execution that is still running has no failed step.
C6_FailedStepAborts ==
    /\ StepFailureReturned =>
          LET workflow == lastEvent.workflow
              log == lastEvent.dispatched
              failed == StepIndex(workflow.steps, lastEvent.response.failed_step)
          IN  /\ ~lastEvent.response.success
              /\ workflow.steps[failed].status = "failed"
              /\ workflow.steps[failed].error # ""
              /\ workflow.status \in {"failed", "rolled_back"}
              /\ lastEvent.workflow_id \notin InFlight
              /\ log # <<>>
              /\ log[Len(log)].step = failed
              /\ \A k \in 1..(Len(log) - 1) :
                     workflow.steps[log[k].step].status = "completed"
              /\ \A i \in 1..Len(workflow.steps) :
                     (\A k \in 1..Len(log) : log[k].step # i) =>
                         workflow.steps[i].status = "pending"
    /\ \A id \in InFlight :
          \A i \in 1..Len(plans[id].steps) : plans[id].steps[i].status # "failed"
    /\ (ExecutionReturned /\ lastEvent.response.success) =>
          \A i \in 1..Len(lastEvent.workflow.steps) :
              lastEvent.workflow.steps[i].status = "completed"

\* a plan has just been aborted at the second step of its order, with a
\* third step never dispatched
C6_Witness ==
    /\ StepFailureReturned
    /\ Len(lastEvent.dispatched) = 2
    /\ Len(lastEvent.workflow.steps) = 3
    /\ lastEvent.workflow.steps[lastEvent.dispatched[1].step].status = "completed"

\* C7: a plan aborted by a step failure ends ROLLED_BACK with
\* rollback_performed = true in the response when rollback_supported is true,
\* and ends FAILED with no rollback action invoked when it is false.
C7_AbortRollsBack ==
    StepFailureReturned =>
        IF lastEvent.workflow.rollback_supported
        THEN /\ lastEvent.workflow.status = "rolled_back"
             /\ lastEvent.response.rollback_performed
        ELSE /\ lastEvent.workflow.status = "failed"
             /\ lastEvent.replayed = <<>>

\* C8: when a plan that supports rollback fails, the rollback records of the
\* plan are replayed once each, the record of the step that completed last
\* first, a record whose action fails included, and the rollback stack then
\* holds no record of the plan.
C8_RollbackReplay ==
    (ExecutionReturned /\ ~lastEvent.response.success
                       /\ lastEvent.workflow.rollback_supported) =>
        LET workflow == lastEvent.workflow
            undoable(invocation) ==
                /\ workflow.steps[invocation.step].status = "completed"
                /\ Truthy(workflow.steps[invocation.step].rollback_info)
            completion == SelectSeq(lastEvent.dispatched, undoable)
        IN  /\ Len(lastEvent.replayed) = Len(completion)
            /\ \A k \in 1..Len(completion) :
                   /\ lastEvent.replayed[k].step = completion[Len(completion) + 1 - k].step
                   /\ lastEvent.replayed[k].workflow_id = lastEvent.workflow_id
            /\ \A k \in 1..Len(rollback_stack) :
                   rollback_stack[k].workflow_id # lastEvent.workflow_id

\* C8 as stated, for every failed plan: its rollback records are replayed
\* once each in reverse completion order and none is left on the stack.
C8_ReplayOnEveryFailure ==
    (ExecutionReturned /\ ~lastEvent.response.success) =>
        LET workflow == lastEvent.workflow
            undoable(invocation) ==
                /\ workflow.steps[invocation.step].status = "completed"
                /\ Truthy(workflow.steps[invocation.step].rollback_info)
            completion == SelectSeq(lastEvent.dispatched, undoable)
        IN  /\ Len(lastEvent.replayed) = Len(completion)
            /\ \A k \in 1..Len(completion) :
                   lastEvent.replayed[k].step = completion[Len(completion) + 1 - k].step
            /\ \A k \in 1..Len(rollback_stack) :
                   rollback_stack[k].workflow_id # lastEvent.workflow_id

\* two records of the failed plan were replayed, the first replay failing,
\* while a record of another plan stays on the stack
C8_Witness ==
    /\ ExecutionReturned
    /\ ~lastEvent.response.success
    /\ Len(lastEvent.replayed) = 2
    /\ ~lastEvent.replayed[1].ok
    /\ lastEvent.replayed[2].ok
    /\ rollback_stack # <<>>

\* C9: confirm_workflow(id, True) for "Clean up the Finance project", with
\* the search tool succeeding, returns success = true and completed_steps = 4.
C9_CleanupCompletes ==
    ( /\ ExecutionReturned
      /\ lastEvent.op = "confirm"
      /\ lastEvent.workflow.title = ParsedRequest["Clean up the Finance project"].title
      /\ \A i \in 1..Len(lastEvent.workflow.steps) :
             lastEvent.workflow.steps[i].tool_name = "search_workbooks" =>
                 lastEvent.workflow.steps[i].status = "completed" ) =>
        /\ lastEvent.response.success
        /\ lastEvent.response.completed_steps = 4

\* C10: a read-only listing request is assessed low; the risk assessment
\* answered for a cleanup/archive request is medium with requires_confirmation
\* = true, and for a delete/remove-access request it is high.
C10_RiskMatchesRequestClass ==
    /\ Validation["List all workbooks in Finance project"].risk_assessment.level = "low"
    /\ PendingReturned =>
          /\ lastEvent.request = "Archive old workbooks from Finance project" =>
                /\ lastEvent.response.risk_assessment.level = "medium"
                /\ lastEvent.response.risk_assessment.requires_confirmation
          /\ lastEvent.request = "Delete all unused data sources and remove user access" =>
                lastEvent.response.risk_assessment.level = "high"


\* the call that has just returned was validate_workflow
ValidateReturned == lastEvent.op = "validate"

\* the number of steps of the plan with the operation type
Count(workflow, operation_type) ==
    Cardinality({i \in 1..Len(workflow.steps) :
                    workflow.steps[i].operation_type = operation_type})

\* C11: the risk assessment validate_workflow returns has score
\* 3 * (DELETE steps) + 2 * (MOVE steps) + (UPDATE steps) + 2 when the plan
\* has more than 10 steps; its level is high from 8, medium from 4 to 7 and
\* low below; it requires confirmation exactly when the score is 3 or more.
C11_RiskScore ==
    ValidateReturned =>
        LET workflow == lastEvent.workflow
            assessment == lastEvent.validation.risk_assessment
            score == 3 * Count(workflow, "delete") + 2 * Count(workflow, "move")
                     + Count(workflow, "update")
                     + (IF Len(workflow.steps) > 10 THEN 2 ELSE 0)
        IN  /\ assessment.score = score
            /\ score >= 8 => assessment.level = "high"
            /\ score >= 4 /\ score < 8 => assessment.level = "medium"
            /\ score < 4 => assessment.level = "low"
            /\ assessment.requires_confirmation <=> score >= 3

\* one DELETE and three UPDATE steps among more than ten are assessed: 6 for
\* the steps and 2 for the size
C11_Witness ==
    /\ ValidateReturned
    /\ Count(lastEvent.workflow, "delete") = 1
    /\ Count(lastEvent.workflow, "update") = 3
    /\ Count(lastEvent.workflow, "move") = 0
    /\ Len(lastEvent.workflow.steps) > 10
    /\ lastEvent.validation.risk_assessment.score = 8
    /\ lastEvent.validation.risk_assessment.level = "high"


\* the call that has just returned validated a plan whose steps are all READ
AllReadValidated ==
    /\ ValidateReturned
    /\ \A i \in 1..Len(lastEvent.workflow.steps) :
          lastEvent.workflow.steps[i].operation_type = "read"

\* C12: a plan whose steps are all READ is assessed at risk level low and
\* does not require confirmation, however many steps it has; its score is 0
\* up to ten steps and 2 (the size points) beyond ten.
C12_AllReadLow ==
    AllReadValidated =>
        LET assessment == lastEvent.validation.risk_assessment IN
        /\ assessment.level = "low"
        /\ ~assessment.requires_confirmation
        /\ assessment.score = IF Len(lastEvent.workflow.steps) > 10 THEN 2 ELSE 0

\* C12 as stated: every all-READ plan, of more than ten steps too, has
\* score 0, level low and requires_confirmation false.
C12_AllReadScoresZero ==
    AllReadValidated =>
        /\ lastEvent.validation.risk_assessment.score = 0
        /\ lastEvent.validation.risk_assessment.level = "low"
        /\ ~lastEvent.validation.risk_assessment.requires_confirmation

\* eleven READ steps are assessed
C12_Witness ==
    /\ AllReadValidated
    /\ Len(lastEvent.workflow.steps) = 11
    /\ lastEvent.validation.risk_assessment.score = 2
    /\ lastEvent.validation.risk_assessment.level = "low"


\* the names _execute_workflow_tool dispatches on
WorkflowTools ==
    {"analyze_usage_patterns", "request_user_confirmation", "bulk_move_content",
     "get_user_content", "analyze_content_importance", "create_migration_plan",
     "bulk_transfer_ownership", "update_user_permissions"}

\* a step of the plan names a tool that neither the client nor the executor
\* provides
HasUnknownTool(workflow) ==
    \E i \in 1..Len(workflow.steps) :
        workflow.steps[i].tool_name \notin TableauClientTools \cup WorkflowTools

\* C13: a plan with a step whose tool_name is unknown is answered by
\* process_workflow_request with a validation failure that carries an error,
\* and is neither registered nor executed.
C13_UnknownToolRejected ==
    /\ \A workflow_id \in DOMAIN plans : ~HasUnknownTool(plans[workflow_id])
    /\ \A t \in (1..MaxTasks) \ FreeSlots : ~HasUnknownTool(plans[tasks[t].workflow_id])
    /\ lastEvent.op = "process" /\ "workflow" \in DOMAIN lastEvent
       /\ HasUnknownTool(lastEvent.workflow)
          => /\ lastEvent.response.error = "Workflow validation failed"
             /\ "replayed" \notin DOMAIN lastEvent


\* the steps of the plan that name a move tool and give neither
\* target_project_id nor target_project_name
MovesWithoutTarget(workflow) ==
    {i \in 1..Len(workflow.steps) :
        /\ workflow.steps[i].tool_name \in {"move_workbook", "move_datasource"}
        /\ DOMAIN workflow.steps[i].arguments
              \cap {"target_project_id", "target_project_name"} = {}}

\* the call that has just returned was a process_workflow_request that
\* answered with a validation failure
RejectedReturned ==
    /\ lastEvent.op = "process"
    /\ "errors" \in DOMAIN lastEvent.response

DestructiveWarning == "Workflow contains potentially destructive operations"

\* the warnings of the validation that has just returned hold the
\* destructive-operations warning
Warned ==
    \E w \in 1..Len(lastEvent.validation.warnings) :
        lastEvent.validation.warnings[w] = DestructiveWarning

\* C15: validate_workflow warns of destructive operations exactly when the
\* plan has a DELETE or MOVE step, whatever the score; the warning is not an
\* error: a warned plan without errors is valid.
C15_DestructiveWarning ==
    ValidateReturned =>
        /\ Warned <=> Count(lastEvent.workflow, "delete")
                        + Count(lastEvent.workflow, "move") >= 1
        /\ Warned /\ lastEvent.validation.errors = <<>> => lastEvent.validation.valid

\* a plan whose only weighted step is one MOVE (score 2, no confirmation
\* required) is warned about and valid
C15_Witness ==
    /\ ValidateReturned
    /\ Count(lastEvent.workflow, "move") = 1
    /\ Count(lastEvent.workflow, "delete") = 0
    /\ lastEvent.validation.risk_assessment.score = 2
    /\ Warned
    /\ lastEvent.validation.valid


\* the call that has just returned was get_workflow_status on a registered
\* plan that is still waiting for its confirmation
PendingStatusReturned ==
    /\ lastEvent.op = "status" /\ lastEvent.known
    /\ lastEvent.workflow_id \in active_workflows
    /\ plans[lastEvent.workflow_id].status = NoStatus

\* C16: get_workflow_status on a plan that is still pending does not raise;
\* it returns a progress report with completed_steps = 0, the plan's number
\* of steps and no current step.
C16_PendingStatusReports ==
    PendingStatusReturned =>
        /\ "raised" \notin DOMAIN lastEvent.response
        /\ lastEvent.response.completed_steps = 0
        /\ lastEvent.response.total_steps
              = Len(plans[lastEvent.workflow_id].steps)
        /\ lastEvent.response.current_step = "None"


\* the call that has just returned was parse_workflow_intent
ParseReturned == lastEvent.op = "parse"

\* the lower-case request holds one of the phrases
Mentions(request_lower, phrases) ==
    \E phrase \in phrases : Contains(request_lower, phrase)

\* C17: parse_workflow_intent tries the templates first, cleanup before
\* migration before audit, whether or not the request also holds a read
\* keyword; a request that matches no template yields the single READ search
\* step without confirmation when it holds list, show, find or search, and
\* the generic two-step plan (READ, then UPDATE) with risk_level medium and
\* requires_confirmation true otherwise.
C17_TemplateFirst ==
    ParseReturned =>
        LET request == lastEvent.request
            workflow == lastEvent.workflow
            request_lower == Lower(request)
            cleanup == Mentions(request_lower, cleanup_patterns)
            migration == Mentions(request_lower, migration_patterns)
            audit == Mentions(request_lower, audit_patterns)
            reads == Mentions(request_lower, read_keywords)
        IN  /\ cleanup => workflow.title = create_cleanup_workflow(request).title
            /\ ~cleanup /\ migration =>
                  workflow.title = create_migration_workflow(request).title
            /\ ~cleanup /\ ~migration /\ audit =>
                  workflow.title = create_audit_workflow(request).title
            /\ ~cleanup /\ ~migration /\ ~audit /\ reads =>
                  /\ Len(workflow.steps) = 1
                  /\ workflow.steps[1].operation_type = "read"
                  /\ ~workflow.requires_confirmation
            /\ ~cleanup /\ ~migration /\ ~audit /\ ~reads =>
                  /\ Len(workflow.steps) = 2
                  /\ workflow.steps[1].operation_type = "read"
                  /\ workflow.steps[2].operation_type = "update"
                  /\ workflow.risk_level = "medium"
                  /\ workflow.requires_confirmation

\* a request with a read keyword and a cleanup phrase behind it has been
\* parsed into the four-step cleanup plan, not into the search step
C17_Witness ==
    /\ ParseReturned
    /\ lastEvent.request = "list cleanup"
    /\ lastEvent.workflow.title = create_cleanup_workflow("list cleanup").title
    /\ Len(lastEvent.workflow.steps) = 4


\* C18: when validate_workflow has returned, the plan's risk_level is the
\* level of the risk assessment the validator computed.
C18_ValidatorSetsRiskLevel ==
    ValidateReturned =>
        lastEvent.workflow.risk_level = lastEvent.validation.risk_assessment.level


\* the risk_level the producer of a plan gives it: the literal of the
\* template or of the pattern parser, the dataclass default otherwise
GivenRiskLevel(workflow) ==
    CASE workflow.title = "Content Cleanup" -> "medium"
      [] workflow.title = "User Migration" -> "high"
      [] workflow.title = "Generic Workflow" -> "medium"
      [] OTHER -> "low"

\* C18, amended: when validate_workflow has returned, the plan's risk_level
\* is still the one the plan was built with; the level the validator computed
\* is in the returned risk assessment only.
C18_RiskLevelKept ==
    ValidateReturned =>
        lastEvent.workflow.risk_level = GivenRiskLevel(lastEvent.workflow)

\* the cleanup plan has been validated: its risk_level is medium, the
\* validator's level is low
C18_Witness ==
    /\ ValidateReturned
    /\ lastEvent.workflow.title = "Content Cleanup"
    /\ lastEvent.workflow.risk_level = "medium"
    /\ lastEvent.validation.risk_assessment.level = "low"


\* the ids of the steps, and the dependencies of the step at a position
Ids(steps) == {steps[i].id : i \in 1..Len(steps)}

DependenciesOf(steps, i) ==
    {steps[i].dependencies[d] : d \in 1..Len(steps[i].dependencies)}

\* a step depends on an id that no step has
Dangling(steps) == \E i \in 1..Len(steps) : ~(DependenciesOf(steps, i) \subseteq Ids(steps))

\* some steps depend on each other in a circle (a step on itself included):
\* a non-empty set of steps each of which depends on a step of the set
Cyclic(steps) ==
    \E S \in SUBSET (1..Len(steps)) :
        /\ S # {}
        /\ \A i \in S : \E j \in S : steps[j].id \in DependenciesOf(steps, i)

UniqueIds(steps) == Cardinality(Ids(steps)) = Len(steps)

Resolvable(steps) == UniqueIds(steps) /\ ~Dangling(steps) /\ ~Cyclic(steps)

\* the position of the id in the order, 0 if it is not in it
PositionIn(order, id) ==
    IF \E k \in 1..Len(order) : order[k] = id
    THEN CHOOSE k \in 1..Len(order) : order[k] = id
    ELSE 0

\* the order holds every step id once, each behind all its dependencies
TopologicalOrder(steps, order) ==
    /\ Len(order) = Len(steps)
    /\ {order[k] : k \in 1..Len(order)} = Ids(steps)
    /\ \A i \in 1..Len(steps) : \A id \in DependenciesOf(steps, i) :
          /\ PositionIn(order, id) > 0
          /\ PositionIn(order, id) < PositionIn(order, steps[i].id)

\* the call of _resolve_execution_order is in its loop; it has ended
Resolving == lastEvent.op = "resolve" /\ lastEvent.outcome = "running"

ResolveEnded == lastEvent.op = "resolve" /\ lastEvent.outcome # "running"

\* C19: for a step list with unique ids, every dependency among them and no
\* cycle, _resolve_execution_order comes to its end and returns; what it
\* returns holds every step id exactly once, each step behind all its
\* dependencies, and is the order execute_workflow runs.
C19_ResolverTerminates ==
    /\ [](lastEvent.op = "resolve" /\ lastEvent.outcome = "returned" =>
            /\ TopologicalOrder(lastEvent.steps, lastEvent.execution_order)
            /\ resolve_execution_order(lastEvent.steps)
                  = [ok |-> TRUE, order |-> lastEvent.execution_order])
    /\ [](lastEvent.op = "resolve" /\ Resolvable(lastEvent.steps) =>
            lastEvent.outcome # "raised")
    /\ Resolving ~> ResolveEnded

\* the chain in which the first step depends on the second and the second on
\* the third has been resolved, last step first
C19_Witness ==
    /\ lastEvent.op = "resolve" /\ lastEvent.outcome = "returned"
    /\ Resolvable(lastEvent.steps)
    /\ lastEvent.steps[1].dependencies = <<StepId(2)>>
    /\ lastEvent.steps[2].dependencies = <<StepId(3)>>
    /\ lastEvent.execution_order[1] = StepId(3)
    /\ lastEvent.execution_order[3] = StepId(1)


\* C20: execute_workflow on a step list with a cycle (a self-dependency
\* included) or with a dependency on an id no step has returns a failure
\* response that says the order cannot be resolved, has invoked no tool and
\* leaves every step PENDING; the plans with a tool invocation have neither.
C20_UnresolvableFails ==
    /\ \A id \in DOMAIN dispatched :
          dispatched[id] # <<>> =>
              ~Cyclic(plans[id].steps) /\ ~Dangling(plans[id].steps)
    /\ ExecutionReturned
       /\ (Cyclic(lastEvent.workflow.steps) \/ Dangling(lastEvent.workflow.steps))
          => /\ ~lastEvent.response.success
             /\ lastEvent.response.error = "Cannot resolve execution order"
             /\ lastEvent.dispatched = <<>>
             /\ \A i \in 1..Len(lastEvent.workflow.steps) :
                   lastEvent.workflow.steps[i].status = "pending"
             /\ \A t \in 1..MaxTasks : tasks[t] = NoTask

\* the execution of a plan without a cycle whose first step depends on the
\* id no step has returned its failure
C20_Witness ==
    /\ ExecutionReturned
    /\ ~Cyclic(lastEvent.workflow.steps)
    /\ MissingId \in DependenciesOf(lastEvent.workflow.steps, 1)
    /\ ~lastEvent.response.success
    /\ lastEvent.dispatched = <<>>


\* the call that has just returned was _resolve_template_variables
TemplatesResolved == lastEvent.op = "resolve_templates"

\* the keys an argument value refers to, outermost first; none for a literal
ReferencePath(value) ==
    CASE value = VStr("{{candidates}}") -> <<"candidates">>
      [] value = VStr("{{ candidates }}") -> <<"candidates">>
      [] value = VStr("{{total}}") -> <<"total">>
      [] value = VStr("{{analysis.candidates}}") -> <<"analysis", "candidates">>
      [] value = VStr("{{analysis.missing}}") -> <<"analysis", "missing">>
      [] value = VStr("{{identified_candidates}}") -> <<"identified_candidates">>
      [] OTHER -> <<>>

\* the step is COMPLETED and its result is a dict that holds a value under
\* the keys of the path
Satisfies(step, path) ==
    /\ step.status = "completed"
    /\ TypeOf(step.result) = "dict"
    /\ path[1] \in DOMAIN ValueOf(step.result)
    /\ Len(path) = 2 =>
          /\ TypeOf(ValueOf(step.result)[path[1]]) = "dict"
          /\ path[2] \in DOMAIN ValueOf(ValueOf(step.result)[path[1]])

ValueAt(step, path) ==
    IF Len(path) = 1 THEN ValueOf(step.result)[path[1]]
    ELSE ValueOf(ValueOf(step.result)[path[1]])[path[2]]

\* C21: _resolve_template_variables replaces an argument that is a
\* double-brace reference by the value under the referenced key in the result
\* of the first step, in the plan's declared order, that is COMPLETED and
\* holds it; a reference no COMPLETED step satisfies and every literal are
\* passed on as they are, and the call returns in every case.
C21_TemplateSubstitution ==
    TemplatesResolved =>
        LET value == lastEvent.arguments.items
            steps == lastEvent.workflow.steps
            path == ReferencePath(value)
            hits == {i \in 1..Len(steps) : path # <<>> /\ Satisfies(steps[i], path)}
        IN  /\ DOMAIN lastEvent.resolved = DOMAIN lastEvent.arguments
            /\ hits = {} => lastEvent.resolved.items = value
            /\ hits # {} =>
                  lastEvent.resolved.items
                     = ValueAt(steps[CHOOSE i \in hits : \A j \in hits : i <= j], path)

\* the reference is satisfied by both steps, with different values, and the
\* first step's value is passed
C21_Witness ==
    /\ TemplatesResolved
    /\ lastEvent.arguments.items = VStr("{{candidates}}")
    /\ Satisfies(lastEvent.workflow.steps[1], <<"candidates">>)
    /\ Satisfies(lastEvent.workflow.steps[2], <<"candidates">>)
    /\ ValueAt(lastEvent.workflow.steps[1], <<"candidates">>)
          # ValueAt(lastEvent.workflow.steps[2], <<"candidates">>)
    /\ lastEvent.resolved.items = ValueAt(lastEvent.workflow.steps[1], <<"candidates">>)


\* the step whose tool the call in slot t is suspended in
DispatchedStep(t) == plans[tasks[t].workflow_id].steps[tasks[t].invocation.step]

\* C22: a step is IN_PROGRESS while its tool is being invoked, and a step
\* that is COMPLETED or FAILED keeps that status in every later step of the
\* plan's life, rollback included.
C22_StepLifecycle ==
    /\ [](\A t \in (1..MaxTasks) \ FreeSlots : DispatchedStep(t).status = "in_progress")
    /\ [][\A id \in (DOMAIN plans) \cap (DOMAIN plans') :
            \A i \in 1..Len(plans[id].steps) :
                plans[id].steps[i].status \in {"completed", "failed"} =>
                    plans'[id].steps[i].status = plans[id].steps[i].status]_vars


\* C23: the executor's registry holds exactly the ids of the plans with an
\* execute_workflow call under way; when the call has returned, by success,
\* step failure, order-resolution error or an exception of the progress
\* callback, the plan's id is not in the registry.
C23_ExecutorRegistryCleanup ==
    /\ executor_active = InFlight
    /\ ExecutionReturned => lastEvent.workflow_id \notin executor_active

\* an execution that had completed two steps has returned through the
\* exception of its progress callback
C23_Witness ==
    /\ ExecutionReturned
    /\ lastEvent.response.error = "progress callback failed"
    /\ Len(lastEvent.dispatched) = 2
    /\ lastEvent.workflow_id \notin executor_active


\* C24: every plan parse_workflow_intent returns has unique step ids, only
\* dependencies on steps of its own and no cycle among them, and
\* _resolve_execution_order returns an order for it.
C24_ParsedPlansWellFormed ==
    ParseReturned =>
        /\ UniqueIds(lastEvent.workflow.steps)
        /\ ~Dangling(lastEvent.workflow.steps)
        /\ ~Cyclic(lastEvent.workflow.steps)
        /\ resolve_execution_order(lastEvent.workflow.steps).ok

\* the five-step migration plan, each step waiting for the one before, has
\* been returned
C24_Witness ==
    /\ ParseReturned
    /\ lastEvent.workflow.title = create_migration_workflow(lastEvent.request).title
    /\ Len(lastEvent.workflow.steps) = 5
    /\ \A i \in 2..5 : lastEvent.workflow.steps[i].dependencies # <<>>
    /\ resolve_execution_order(lastEvent.workflow.steps).ok


\* the records of the stack that belong to other plans than workflow_id
RecordsOfOthers(stack, workflow_id) ==
    LET other(rb) == rb.workflow_id # workflow_id IN SelectSeq(stack, other)

\* C25: when an execution of a plan returns a failure, every rollback action
\* invoked by its failure handling belongs to a record of that plan, and the
\* records of the other plans are on the stack afterwards as they were
\* before, in the same order.
C25_RollbackOnlyOwnRecords ==
    [][("replayed" \in DOMAIN lastEvent' /\ lastEvent'.op = "execute"
          /\ ~lastEvent'.response.success) =>
            /\ \A k \in 1..Len(lastEvent'.replayed) :
                  lastEvent'.replayed[k].workflow_id = lastEvent'.workflow_id
            /\ RecordsOfOthers(rollback_stack', lastEvent'.workflow_id)
                  = RecordsOfOthers(rollback_stack, lastEvent'.workflow_id)]_vars

\* a plan failed and had its records replayed while another plan, still
\* executing, has a record on the stack
C25_Witness ==
    /\ ExecutionReturned
    /\ ~lastEvent.response.success
    /\ lastEvent.replayed # <<>>
    /\ \E k \in 1..Len(rollback_stack) :
          /\ rollback_stack[k].workflow_id # lastEvent.workflow_id
          /\ rollback_stack[k].workflow_id \in InFlight


\* a failed execution returned and says that rollback happened
RollbackReported ==
    /\ ExecutionReturned
    /\ ~lastEvent.response.success
    /\ \/ lastEvent.response.rollback_performed
       \/ lastEvent.workflow.status = "rolled_back"

\* C26: a failed execution reports that rollback happened (rollback_performed
\* true in the response, or final status ROLLED_BACK) only if at least one
\* rollback record of that same plan was replayed by its failure handling.
C26_RollbackReportedOnlyIfReplayed ==
    RollbackReported =>
        \E k \in 1..Len(lastEvent.replayed) :
            lastEvent.replayed[k].workflow_id = lastEvent.workflow_id


\* C27: once an execution of a plan has returned, whatever its outcome, the
\* rollback stack holds no record of that plan.
C27_NoRecordLeftAfterReturn ==
    ExecutionReturned =>
        \A k \in 1..Len(rollback_stack) :
            rollback_stack[k].workflow_id # lastEvent.workflow_id


\* no step of a plan has been handed to its tool twice
DispatchedAtMostOnce ==
    \A id \in DOMAIN dispatched :
        \A j, k \in 1..Len(dispatched[id]) :
            dispatched[id][j].step = dispatched[id][k].step => j = k

\* a step whose outcome has been written keeps its status, result and error
WrittenAtMostOnce ==
    \A id \in DOMAIN plans :
        \A i \in 1..Len(plans[id].steps) :
            plans[id].steps[i].status \in {"completed", "failed"} =>
                /\ id \in DOMAIN plans' => plans'[id].steps[i] = plans[id].steps[i]
                /\ ("workflow" \in DOMAIN lastEvent' /\ lastEvent'.workflow_id = id) =>
                      lastEvent'.workflow.steps[i] = plans[id].steps[i]

\* C28: each step of a plan is dispatched at most once and its result or
\* error is written at most once, also when a second confirm(plan_id, true)
\* arrives while the first is suspended at a tool invocation.
C28_StepDispatchedOnce ==
    [](DispatchedAtMostOnce) /\ [][WrittenAtMostOnce]_vars


\* C29: cancellation is only possible before execution starts: a
\* confirm(plan_id, false) never returns a cancelled response, nor sets the
\* status CANCELLED, for a plan that a confirm(plan_id, true) has begun to
\* execute, and no step of a plan is dispatched after a cancelled response
\* was returned for it.
C29_CancelOnlyBeforeExecution ==
    /\ [](CancelReturned =>
             /\ lastEvent.workflow_id \notin InFlight
             /\ lastEvent.dispatched = <<>>)
    /\ [](\A id \in DOMAIN plans :
             plans[id].status = "cancelled" => id \notin InFlight)
    /\ [][CancelReturned =>
             /\ lastEvent.workflow_id \in DOMAIN dispatched' =>
                   dispatched'[lastEvent.workflow_id] = lastEvent.dispatched
             /\ ("dispatched" \in DOMAIN lastEvent'
                    /\ lastEvent'.workflow_id = lastEvent.workflow_id) =>
                   lastEvent'.dispatched = lastEvent.dispatched]_vars


\* every invocation of the list was made for a READ step of the plan
OnlyReadDispatched(workflow, invocations) ==
    \A k \in 1..Len(invocations) :
        workflow.steps[invocations[k].step].operation_type = "read"

\* C30: through process_workflow_request, confirm_workflow and
\* get_workflow_status, a step whose operation type is not READ is dispatched
\* only by a confirm_workflow(plan_id, True) call for its plan: a plan waiting
\* for confirmation has no step dispatched, and the calls
\* process_workflow_request executes by itself dispatch READ steps only.
C30_WritesOnlyAfterConfirm ==
    /\ \A id \in active_workflows \ InFlight : Dispatched(id) = <<>>
    /\ \A t \in (1..MaxTasks) \ FreeSlots :
          tasks[t].op = "process" =>
              OnlyReadDispatched(plans[tasks[t].workflow_id],
                                 Dispatched(tasks[t].workflow_id))
    /\ (ExecutionReturned /\ lastEvent.op = "process") =>
          OnlyReadDispatched(lastEvent.workflow, lastEvent.dispatched)

\* a confirmed plan has had a MOVE step dispatched while a plan that
\* process_workflow_request executes by itself is suspended in its READ step
C30_Witness ==
    /\ ExecutionReturned
    /\ lastEvent.op = "confirm"
    /\ ~OnlyReadDispatched(lastEvent.workflow, lastEvent.dispatched)
    /\ \E t \in (1..MaxTasks) \ FreeSlots :
          /\ tasks[t].op = "process"
          /\ Dispatched(tasks[t].workflow_id) # <<>>

=============================================================================
